---- MODULE Spec2Model ----
(***************************************************************************)
(* A model of the NDR record validator (src/ndr_validator.py), of the       *)
(* extractor (src/ndr_extractor.py) and of the upload handler (src/app.py).*)
(*                                                                         *)
(* Python strings are modelled as sequences of tokens.  A token is a TLA+  *)
(* string: one character for the data-bearing strings (visit dates, drug   *)
(* codes, durations, heights), one literal fragment for the fixed text of  *)
(* a message.  Two Python strings are equal iff their token sequences are. *)
(* Python dicts are modelled as sequences of [key, val] pairs with unique  *)
(* keys, in insertion order; dicts with optional keys as TLA+ records      *)
(* whose DOMAIN is the set of keys present.                                *)
(***************************************************************************)
EXTENDS Integers, Sequences, FiniteSets, TLC

VARIABLES data, pc, issues, seen_issues, ipt_dates, idx, first,
          files, request, response, peer

vars == <<data, pc, issues, seen_issues, ipt_dates, idx, first,
          files, request, response, peer>>

\* The state of the upload handler, of the file system it works on and of
\* a second request in another thread, which validate_ndr does not touch.
hvars == <<files, request, response, peer>>

(***************************************************************************)
(* Python values.                                                          *)
(***************************************************************************)
\* Python's None; no string is this token sequence (no text has this token).
None == <<"<None>">>

\* The empty string "".
Empty == <<>>

\* Truthiness of an optional string: None and "" are falsy.
Truthy(v) == v # None /\ v # Empty

\* str(v) as an f-string formats it: None prints as the text None.
Fmt(v) == IF v = None THEN <<"None">> ELSE v

\* dict.get(key) on a dict with optional keys.
Get(dict, key) == IF key \in DOMAIN dict THEN dict[key] ELSE None

\* key in items, for an ordered dict of [key, val] pairs.
HasKey(items, key) == \E k \in 1..Len(items) : items[k].key = key

\* items[key], for a key the ordered dict has.
Lookup(items, key) == items[CHOOSE k \in 1..Len(items) : items[k].key = key].val

Range(s) == {s[k] : k \in 1..Len(s)}

\* needle in haystack, for strings: a contiguous run of tokens.
Contains(haystack, needle) ==
    \E k \in 0..(Len(haystack) - Len(needle)) :
        \A j \in 1..Len(needle) : haystack[k + j] = needle[j]

\* str.upper(), token by token.
UpperChar(c) ==
    CASE c = "i" -> "I"
      [] c = "n" -> "N"
      [] c = "h" -> "H"
      [] c = "t" -> "T"
      [] c = "d" -> "D"
      [] c = "f" -> "F"
      [] c = "a" -> "A"
      [] c = "y" -> "Y"
      [] OTHER -> c

upper(s) == [k \in 1..Len(s) |-> UpperChar(s[k])]

(***************************************************************************)
(* Numbers and dates.                                                      *)
(***************************************************************************)
DigitChars == {"0", "1", "2", "3", "4", "5", "6", "7", "8", "9"}

DigitVal(c) ==
    CASE c = "0" -> 0 [] c = "1" -> 1 [] c = "2" -> 2 [] c = "3" -> 3
      [] c = "4" -> 4 [] c = "5" -> 5 [] c = "6" -> 6 [] c = "7" -> 7
      [] c = "8" -> 8 [] c = "9" -> 9

DigitChar(n) ==
    CASE n = 0 -> "0" [] n = 1 -> "1" [] n = 2 -> "2" [] n = 3 -> "3"
      [] n = 4 -> "4" [] n = 5 -> "5" [] n = 6 -> "6" [] n = 7 -> "7"
      [] n = 8 -> "8" [] n = 9 -> "9"

AllDigits(s) == Len(s) > 0 /\ \A k \in 1..Len(s) : s[k] \in DigitChars

RECURSIVE DigitsVal(_)
DigitsVal(s) ==
    IF s = <<>> THEN 0
    ELSE 10 * DigitsVal(SubSeq(s, 1, Len(s) - 1)) + DigitVal(s[Len(s)])

RECURSIVE NatToStr(_)
NatToStr(n) ==
    IF n < 10 THEN <<DigitChar(n)>>
    ELSE NatToStr(n \div 10) \o <<DigitChar(n % 10)>>

\* str(n) of an int, as f"{dur}" prints it.
IntToStr(n) == IF n < 0 THEN <<"-">> \o NatToStr(0 - n) ELSE NatToStr(n)

\* The failure of a conversion (Python raises ValueError).
ValueError == <<"ValueError">>

\* str.strip() of blanks, which int() and float() apply to their argument.
RECURSIVE strip(_)
strip(s) ==
    IF s # <<>> /\ s[1] = " " THEN strip(Tail(s))
    ELSE IF s # <<>> /\ s[Len(s)] = " " THEN strip(SubSeq(s, 1, Len(s) - 1))
    ELSE s

\* int(s) of a string of blanks, signs, digits, points and letters: blanks
\* around an optional sign and decimal digits; anything else raises
\* ValueError.  The result is [ok, val]; ok is FALSE for ValueError.
int(s) ==
    LET t    == strip(s)
        body == IF Len(t) > 0 /\ t[1] \in {"+", "-"} THEN Tail(t) ELSE t
    IN  IF AllDigits(body)
        THEN [ok |-> TRUE,
              val |-> IF t[1] = "-" THEN 0 - DigitsVal(body) ELSE DigitsVal(body)]
        ELSE [ok |-> FALSE, val |-> 0]

\* float(s) of a string of blanks, signs, digits, points and letters other
\* than those of an exponent: blanks around an optional sign and either
\* digits, an optional point and more digits, or inf, infinity or nan in any
\* letter case.  The result is [ok, kind, neg, whole, frac]: a finite number
\* by its sign, its integer part and the digits after the point without
\* their trailing zeros; kind is "inf" or "nan" for the two special values.
RECURSIVE StripZeros(_)
StripZeros(ds) ==
    IF ds # <<>> /\ ds[Len(ds)] = "0" THEN StripZeros(SubSeq(ds, 1, Len(ds) - 1))
    ELSE ds

float(s) ==
    LET t     == strip(s)
        neg   == Len(t) > 0 /\ t[1] = "-"
        body  == IF Len(t) > 0 /\ t[1] \in {"+", "-"} THEN Tail(t) ELSE t
        point == {k \in 1..Len(body) : body[k] = "."}
        k     == IF point = {} THEN Len(body) + 1 ELSE CHOOSE j \in point : TRUE
        ip    == SubSeq(body, 1, k - 1)
        fp    == SubSeq(body, k + 1, Len(body))
        digs  == ip \o fp
    IN  IF s = None
        THEN [ok |-> FALSE, kind |-> "finite", neg |-> FALSE, whole |-> 0, frac |-> <<>>]
        ELSE IF upper(body) \in {<<"I", "N", "F">>,
                                 <<"I", "N", "F", "I", "N", "I", "T", "Y">>}
        THEN [ok |-> TRUE, kind |-> "inf", neg |-> neg, whole |-> 0, frac |-> <<>>]
        ELSE IF upper(body) = <<"N", "A", "N">>
        THEN [ok |-> TRUE, kind |-> "nan", neg |-> FALSE, whole |-> 0, frac |-> <<>>]
        ELSE IF Cardinality(point) <= 1 /\ AllDigits(digs)
        THEN [ok |-> TRUE, kind |-> "finite", neg |-> neg, whole |-> DigitsVal(ip),
              frac |-> StripZeros(fp)]
        ELSE [ok |-> FALSE, kind |-> "finite", neg |-> FALSE, whole |-> 0, frac |-> <<>>]

\* x > n for a parsed float x and a natural number n.
FloatGreater(x, n) ==
    /\ ~x.neg
    /\ x.kind # "nan"
    /\ \/ x.kind = "inf"
       \/ x.whole > n
       \/ x.whole = n /\ x.frac # <<>>

\* str(x) of a float, as f"{height_val}" prints it: 205.0, 200.5.
FloatToStr(x) ==
    IF x.kind = "nan" THEN <<"n", "a", "n">>
    ELSE (IF x.neg THEN <<"-">> ELSE <<>>)
         \o (IF x.kind = "inf" THEN <<"i", "n", "f">>
             ELSE NatToStr(x.whole) \o <<".">>
                  \o (IF x.frac = <<>> THEN <<"0">> ELSE x.frac))

IsLeap(y) == (y % 4 = 0 /\ y % 100 # 0) \/ y % 400 = 0

DaysInMonth(y, m) ==
    IF m \in {4, 6, 9, 11} THEN 30
    ELSE IF m = 2 THEN (IF IsLeap(y) THEN 29 ELSE 28)
    ELSE 31

\* datetime.strptime(s, "%Y-%m-%d"): four digits, "-", a month of one or two
\* digits in 1..12, "-", a day of one or two digits that exists in that
\* month.  The result is the datetime <<y, m, d>>, or ValueError.
strptime(s) ==
    IF Len(s) < 8 \/ Len(s) > 10 THEN ValueError
    ELSE IF ~AllDigits(SubSeq(s, 1, 4)) \/ s[5] # "-" THEN ValueError
    ELSE LET rest == SubSeq(s, 6, Len(s))
             dash == {k \in 1..Len(rest) : rest[k] = "-"}
         IN  IF Cardinality(dash) # 1 THEN ValueError
             ELSE LET k  == CHOOSE j \in dash : TRUE
                      ms == SubSeq(rest, 1, k - 1)
                      ds == SubSeq(rest, k + 1, Len(rest))
                      y  == DigitsVal(SubSeq(s, 1, 4))
                      m  == DigitsVal(ms)
                      d  == DigitsVal(ds)
                  IN  IF /\ AllDigits(ms) /\ Len(ms) <= 2
                         /\ AllDigits(ds) /\ Len(ds) <= 2
                         /\ y >= 1
                         /\ m \in 1..12
                         /\ d >= 1 /\ d <= DaysInMonth(y, m)
                      THEN <<y, m, d>>
                      ELSE ValueError

\* a < b on datetimes (midnight of a calendar day).
DtLess(a, b) ==
    \/ a[1] < b[1]
    \/ a[1] = b[1] /\ a[2] < b[2]
    \/ a[1] = b[1] /\ a[2] = b[2] /\ a[3] < b[3]

\* a >= b on datetimes.
DtGeq(a, b) == ~DtLess(a, b)

Pad(n, width) ==
    LET ds == NatToStr(n)
    IN  [k \in 1..(width - Len(ds)) |-> "0"] \o ds

\* str(dt.date()) and dt.strftime("%Y-%m-%d"): zero-padded ISO text.
IsoDate(dt) == Pad(dt[1], 4) \o <<"-">> \o Pad(dt[2], 2) \o <<"-">> \o Pad(dt[3], 2)

(***************************************************************************)
(* The issue messages of validate_ndr, one operator per f-string.          *)
(***************************************************************************)
\* The two severity markers, each with the space that follows it.
Cross == "<cross mark> "

Warn == "<warning sign> "

MsgInvalidId(flag) == <<Cross>> \o flag

MsgMissingHN(tb_id) ==
    <<Cross, "Missing valid Treatment Patient identifier (HN). Supplied TB ID: ">>
        \o Fmt(tb_id)

MsgArtStartMissing == <<Cross, "ARTStartDate is missing in HIVQuestions section.">>

MsgAddress(flag) == <<Cross>> \o flag

MsgNoVisitDate == <<Cross, "Encounter missing VisitDate.">>

MsgArvMissing(date) == <<Cross>> \o date \o <<": ARVDrugRegimen/Code is missing.">>

MsgPrecedes(date, art_start) ==
    <<Cross>> \o date \o <<": Encounter precedes ARTStartDate (">>
        \o IsoDate(art_start) \o <<").">>

MsgEncArtMissing(date) == <<Cross>> \o date \o <<": ARTStartDate Missing.">>

MsgBadVisitDate(date) == <<Warn>> \o date \o <<": VisitDate has invalid format.">>

MsgTbMissing(date) == <<Cross>> \o date \o <<": TBStatus is missing.">>

MsgNoIpt(date) ==
    <<Cross>> \o date \o <<": TBStatus 0 but no IPT (INH) regimen on/after this date.">>

MsgIptConflict(date, tb) ==
    <<Cross>> \o date \o <<": IPT recorded for TBStatus ">> \o tb
        \o <<" (should receive TB treatment).">>

MsgDuration(date, regcodetext, dur) ==
    <<Cross>> \o date \o <<": PrescribedRegimenDuration ">> \o regcodetext \o <<" is ">>
        \o IntToStr(dur) \o <<", expected between 1 and 180 days.">>

MsgNoMmd(date) ==
    <<Cross>> \o date \o <<": Regimen duration >30 days but MMD not specified.">>

MsgNotNumeric(date) == <<Warn>> \o date \o <<": Regimen duration not numeric.">>

MsgMismatch(date, arv, code) ==
    <<Cross>> \o date \o <<": ARV code mismatch (Encounter=">> \o arv
        \o <<", Regimen=">> \o code \o <<").">>

MsgLab(date) ==
    <<Cross>> \o date \o <<": Lab report missing test ID or collection date.">>

MsgAge(age, calc_age) ==
    <<Cross, "Reported age (">> \o age \o <<") vs calculated (">>
        \o IntToStr(calc_age) \o <<") differs by >1 year.">>

\* MsgAgeUnknown without its severity marker.
MsgAgeUnknownBare == <<"Unable to validate age (date format issue).">>

MsgAgeUnknown == <<Warn, "Unable to validate age (date format issue).">>

MsgArtHeight(art_start_str, height_val) ==
    <<Cross, "ART Start (">> \o art_start_str \o <<"): Child Height at ART start > 200 (">>
        \o FloatToStr(height_val) \o <<").">>

MsgHeight(date, height_val) ==
    <<Cross>> \o date \o <<": Child Height > 200 (">> \o FloatToStr(height_val) \o <<").">>

(***************************************************************************)
(* The flags the extractor raises (src/ndr_extractor.py).                  *)
(***************************************************************************)
FlagMissingArtStart == <<"Missing ARTStartDate">>

FlagInvalidId(id_type) == <<"Invalid identifier", ": ">> \o id_type

\* address_flags, in the order validate_ndr lists them.
address_flags ==
    << <<"Missing AddressTypeCode in PatientAddress">>,
       <<"Missing LGACode in PatientAddress">>,
       <<"Missing StateCode in PatientAddress">>,
       <<"Missing CountryCode in PatientAddress">>,
       <<"Missing PatientAddress element">> >>

(***************************************************************************)
(* validate_ndr, step by step (src/ndr_validator.py).                      *)
(***************************************************************************)
\* The key of an element without a VisitDate.
Unknown == <<"Unknown">>

\* v or "": the idiom of the code for optional strings.
OrEmpty(v) == IF Truthy(v) THEN v ELSE Empty

\* The concatenation of a sequence of lists: what a loop appends, pass by pass.
RECURSIVE Flatten(_)
Flatten(lists) ==
    IF lists = <<>> THEN <<>> ELSE Head(lists) \o Flatten(Tail(lists))

\* data.setdefault("validation_flags", []).
SetDefaultFlags(d) ==
    IF "validation_flags" \in DOMAIN d THEN d
    ELSE [validation_flags |-> <<>>] @@ d

\* The set ipt_dates: the keys of the regimens whose code contains INH.
IptDateSet(d) ==
    {d.regimens[k].key : k \in {j \in 1..Len(d.regimens) :
        Contains(upper(OrEmpty(d.regimens[j].val.code)), <<"I", "N", "H">>)}}

\* The orders in which a set can be iterated.
Orders(S) == {o \in [1..Cardinality(S) -> S] : Range(o) = S}

\* add_issue without the test on seen_issues.
add_issue_always(acc, msg) ==
    [issues |-> Append(acc.issues, msg), seen |-> acc.seen \cup {msg}]

\* add_issue(msg): append msg unless an equal message was added before.
add_issue(acc, msg) ==
    IF msg \in acc.seen THEN acc
    ELSE [issues |-> Append(acc.issues, msg), seen |-> acc.seen \cup {msg}]

\* The list invalid_ids.
invalid_ids(d) ==
    SelectSeq(d.validation_flags, LAMBDA flag : Contains(flag, <<"Invalid identifier">>))

\* InvalidIdIssues with the flags deduplicated, first occurrences kept.
InvalidIdIssuesOnce(d) ==
    LET flags == invalid_ids(d)
        firsts == SelectSeq([k \in 1..Len(flags) |-> [at |-> k, flag |-> flags[k]]],
                            LAMBDA e : \A j \in 1..(e.at - 1) : flags[j] # e.flag)
    IN  [k \in 1..Len(firsts) |-> MsgInvalidId(firsts[k].flag)]

\* Lines 25-27: one issue per invalid-identifier flag.
InvalidIdIssues(d) ==
    [k \in 1..Len(invalid_ids(d)) |-> MsgInvalidId(invalid_ids(d)[k])]

\* HnIssues with the test "is None" written as "not idtypeHN".
HnIssuesFalsy(d) ==
    IF ~Truthy(Get(d.patient, "hn"))
    THEN <<MsgMissingHN(Get(d.patient, "tb_id"))>>
    ELSE <<>>

\* Lines 29-31: the missing-HN issue.
HnIssues(d) ==
    IF Get(d.patient, "hn") = None
    THEN <<MsgMissingHN(Get(d.patient, "tb_id"))>>
    ELSE <<>>

\* ArtStartIssues with one issue per occurrence of the flag.
ArtStartIssuesPerFlag(d) ==
    LET hits == SelectSeq(d.validation_flags, LAMBDA flag : flag = FlagMissingArtStart)
    IN  [k \in 1..Len(hits) |-> MsgArtStartMissing]
        \o (IF Get(d, "art_start") = None THEN <<MsgArtStartMissing>> ELSE <<>>)

\* ArtStartIssues with the test of the flag alone.
ArtStartIssuesFlagOnly(d) ==
    IF FlagMissingArtStart \in Range(d.validation_flags)
    THEN <<MsgArtStartMissing>>
    ELSE <<>>

\* Lines 35-36: the ART-start presence issue.
ArtStartIssues(d) ==
    IF FlagMissingArtStart \in Range(d.validation_flags) \/ Get(d, "art_start") = None
    THEN <<MsgArtStartMissing>>
    ELSE <<>>

\* Lines 48-50: the address issues, in the order of address_flags.
AddressIssues(d) ==
    LET present == SelectSeq(address_flags, LAMBDA flag : flag \in Range(d.validation_flags))
    IN  [k \in 1..Len(present) |-> MsgAddress(present[k])]

\* ChronologyIssues with visit_dt <= art_start for visit_dt < art_start.
ChronologyIssuesInclusive(date, enc, art_start) ==
    LET visit_dt == strptime(date)
    IN  (IF ~Truthy(enc.arv) THEN <<MsgArvMissing(date)>> ELSE <<>>)
        \o (IF visit_dt = ValueError THEN <<MsgBadVisitDate(date)>>
            ELSE (IF art_start # None /\ ~DtLess(art_start, visit_dt) /\ Truthy(enc.arv)
                  THEN <<MsgPrecedes(date, art_start)>> ELSE <<>>)
                 \o (IF art_start = None THEN <<MsgEncArtMissing(date)>> ELSE <<>>))

\* ChronologyIssues with the test of art_start after the try block, where an
\* unparsable visit date does not skip it.
ChronologyIssuesAfterTry(date, enc, art_start) ==
    LET visit_dt == strptime(date)
    IN  (IF ~Truthy(enc.arv) THEN <<MsgArvMissing(date)>> ELSE <<>>)
        \o (IF visit_dt = ValueError THEN <<MsgBadVisitDate(date)>>
            ELSE (IF art_start # None /\ DtLess(visit_dt, art_start) /\ Truthy(enc.arv)
                  THEN <<MsgPrecedes(date, art_start)>> ELSE <<>>))
        \o (IF art_start = None THEN <<MsgEncArtMissing(date)>> ELSE <<>>)

\* Lines 57-69 of the encounter loop: the ARV-code and chronology checks.
ChronologyIssues(date, enc, art_start) ==
    LET visit_dt == strptime(date)
    IN  (IF ~Truthy(enc.arv) THEN <<MsgArvMissing(date)>> ELSE <<>>)
        \o (IF visit_dt = ValueError THEN <<MsgBadVisitDate(date)>>
            ELSE (IF art_start # None /\ DtLess(visit_dt, art_start) /\ Truthy(enc.arv)
                  THEN <<MsgPrecedes(date, art_start)>> ELSE <<>>)
                 \o (IF art_start = None THEN <<MsgEncArtMissing(date)>> ELSE <<>>))

\* any(strptime(d) >= visit_dt if visit_dt else dflt for d in order): the
\* elements are evaluated in iteration order and the first true one ends the
\* evaluation; strptime of an unparsable d raises out of validate_ndr.
RECURSIVE AnyIpt(_, _, _)
AnyIpt(order, visit_dt, dflt) ==
    IF order = <<>> THEN "False"
    ELSE IF visit_dt = None
         THEN (IF dflt THEN "True" ELSE AnyIpt(Tail(order), visit_dt, dflt))
         ELSE LET ipt_dt == strptime(Head(order))
              IN  IF ipt_dt = ValueError THEN "ValueError"
                  ELSE IF DtGeq(ipt_dt, visit_dt) THEN "True"
                  ELSE AnyIpt(Tail(order), visit_dt, dflt)

\* TbIssues with the test of line 80 written as tb in {"0", "1"}.
TbIssuesAlsoOne(date, enc, order) ==
    LET tb       == enc.tb
        parsed   == strptime(date)
        visit_dt == IF parsed = ValueError THEN None ELSE parsed
        has_ipt  == AnyIpt(order, visit_dt, FALSE)
        conflict == AnyIpt(order, visit_dt, TRUE)
    IN  IF tb = None THEN [raised |-> FALSE, out |-> <<MsgTbMissing(date)>>]
        ELSE IF tb \in {<<"0">>, <<"1">>}
        THEN [raised |-> has_ipt = "ValueError",
              out |-> IF has_ipt = "False" THEN <<MsgNoIpt(date)>> ELSE <<>>]
        ELSE IF tb \in {<<"2">>, <<"3">>, <<"4">>}
        THEN [raised |-> conflict = "ValueError",
              out |-> IF conflict = "True" THEN <<MsgIptConflict(date, tb)>> ELSE <<>>]
        ELSE [raised |-> FALSE, out |-> <<>>]

\* Lines 71-93: the TB/IPT cross-check of one encounter.  The result is
\* [raised, out]: whether ValueError escaped, and the issues appended.
TbIssues(date, enc, order) ==
    LET tb       == enc.tb
        parsed   == strptime(date)
        visit_dt == IF parsed = ValueError THEN None ELSE parsed
        has_ipt  == AnyIpt(order, visit_dt, FALSE)
        conflict == AnyIpt(order, visit_dt, TRUE)
    IN  IF tb = None THEN [raised |-> FALSE, out |-> <<MsgTbMissing(date)>>]
        ELSE IF tb = <<"0">>
        THEN [raised |-> has_ipt = "ValueError",
              out |-> IF has_ipt = "False" THEN <<MsgNoIpt(date)>> ELSE <<>>]
        ELSE IF tb \in {<<"2">>, <<"3">>, <<"4">>}
        THEN [raised |-> conflict = "ValueError",
              out |-> IF conflict = "True" THEN <<MsgIptConflict(date, tb)>> ELSE <<>>]
        ELSE [raised |-> FALSE, out |-> <<>>]

\* RegimenCheck with the MMD issue and the not-numeric warning added through
\* add_issue, like the issue of the 1..180 test.
RegimenCheckDedup(acc, date, reg) ==
    LET dur == IF Truthy(reg.duration) THEN int(reg.duration) ELSE [ok |-> TRUE, val |-> 0]
        regcodetext == OrEmpty(reg.codetext)
        a1 == IF ~(1 <= dur.val /\ dur.val <= 180)
              THEN add_issue(acc, MsgDuration(date, regcodetext, dur.val))
              ELSE acc
    IN  IF ~dur.ok THEN add_issue(acc, MsgNotNumeric(date))
        ELSE IF dur.val > 30 /\ ~Truthy(reg.mmd) THEN add_issue(a1, MsgNoMmd(date))
        ELSE a1

\* Lines 96-110: the duration and MMD checks of one regimen.
RegimenCheck(acc, date, reg) ==
    LET dur == IF Truthy(reg.duration) THEN int(reg.duration) ELSE [ok |-> TRUE, val |-> 0]
        regcodetext == OrEmpty(reg.codetext)
        a1 == IF ~(1 <= dur.val /\ dur.val <= 180)
              THEN add_issue(acc, MsgDuration(date, regcodetext, dur.val))
              ELSE acc
    IN  IF ~dur.ok
        THEN [issues |-> Append(acc.issues, MsgNotNumeric(date)), seen |-> acc.seen]
        ELSE IF dur.val > 30 /\ ~Truthy(reg.mmd)
        THEN [issues |-> Append(a1.issues, MsgNoMmd(date)), seen |-> a1.seen]
        ELSE a1

\* Lines 95-110: the loop over all regimens, inside the encounter loop.
RECURSIVE RegimenPass(_, _)
RegimenPass(acc, regs) ==
    IF regs = <<>> THEN acc
    ELSE RegimenPass(RegimenCheck(acc, Head(regs).key, Head(regs).val), Tail(regs))

\* Lines 52-110: one iteration of the encounter loop.  The result is
\* [raised, issues, seen].
EncounterBody(acc, date, enc, d, order) ==
    IF date = Unknown
    THEN [raised |-> FALSE, issues |-> Append(acc.issues, MsgNoVisitDate), seen |-> acc.seen]
    ELSE LET chrono == acc.issues \o ChronologyIssues(date, enc, Get(d, "art_start"))
             tb     == TbIssues(date, enc, order)
             after  == RegimenPass([issues |-> chrono \o tb.out, seen |-> acc.seen], d.regimens)
         IN  IF tb.raised
             THEN [raised |-> TRUE, issues |-> chrono, seen |-> acc.seen]
             ELSE [raised |-> FALSE, issues |-> after.issues, seen |-> after.seen]

\* MismatchOf without the test of the regimen type.
MismatchOfAnyType(d, e) ==
    LET reg == Lookup(d.regimens, e.key)
    IN  IF /\ HasKey(d.regimens, e.key)
           /\ Truthy(e.val.arv) /\ Truthy(reg.code) /\ e.val.arv # reg.code
        THEN <<MsgMismatch(e.key, e.val.arv, reg.code)>>
        ELSE <<>>

\* Lines 113-117: the ARV/regimen agreement check of one encounter.
MismatchOf(d, e) ==
    LET reg == Lookup(d.regimens, e.key)
    IN  IF /\ HasKey(d.regimens, e.key)
           /\ reg.type = <<"A", "R", "T">>
           /\ Truthy(e.val.arv) /\ Truthy(reg.code) /\ e.val.arv # reg.code
        THEN <<MsgMismatch(e.key, e.val.arv, reg.code)>>
        ELSE <<>>

MismatchIssues(d) ==
    Flatten([k \in 1..Len(d.encounters) |-> MismatchOf(d, d.encounters[k])])

\* Lines 119-121: the lab completeness check.
LabIssues(d) ==
    Flatten([k \in 1..Len(d.labs) |->
        LET lab == d.labs[k]
        IN  IF ~Truthy(lab.val.test_id) \/ ~Truthy(lab.val.collected)
            THEN <<MsgLab(lab.key)>> ELSE <<>>])

\* AgeIssues with the tolerance test written as >= 1.
AgeIssuesNoTolerance(d) ==
    LET dob    == Get(d.patient, "dob")
        age    == Get(d.patient, "age")
        rpt    == Get(d.patient, "report_date")
        dob_dt == strptime(dob)
        rpt_dt == strptime(rpt)
        before == \/ rpt_dt[2] < dob_dt[2]
                  \/ rpt_dt[2] = dob_dt[2] /\ rpt_dt[3] < dob_dt[3]
        calc_age == rpt_dt[1] - dob_dt[1] - (IF before THEN 1 ELSE 0)
        diff   == int(age).val - calc_age
    IN  IF dob_dt = ValueError \/ rpt_dt = ValueError \/ age = None \/ ~int(age).ok
        THEN <<MsgAgeUnknown>>
        ELSE IF diff >= 1 \/ diff <= -1 THEN <<MsgAge(age, calc_age)>>
        ELSE <<>>

\* Lines 123-135: the age consistency check.
AgeIssues(d) ==
    LET dob    == Get(d.patient, "dob")
        age    == Get(d.patient, "age")
        rpt    == Get(d.patient, "report_date")
        dob_dt == strptime(dob)
        rpt_dt == strptime(rpt)
        before == \/ rpt_dt[2] < dob_dt[2]
                  \/ rpt_dt[2] = dob_dt[2] /\ rpt_dt[3] < dob_dt[3]
        calc_age == rpt_dt[1] - dob_dt[1] - (IF before THEN 1 ELSE 0)
        diff   == int(age).val - calc_age
    IN  IF dob_dt = ValueError \/ rpt_dt = ValueError \/ age = None \/ ~int(age).ok
        THEN <<MsgAgeUnknown>>
        ELSE IF diff > 1 \/ diff < -1 THEN <<MsgAge(age, calc_age)>>
        ELSE <<>>

\* Lines 138-147: the bound on the height at ART start.
ArtHeightIssues(d) ==
    LET height_at_art_start == Get(d.patient, "height_at_art_start")
        art_start  == Get(d, "art_start")
        height_val == float(height_at_art_start)
    IN  IF Truthy(height_at_art_start) /\ height_val.ok /\ FloatGreater(height_val, 200)
        THEN <<MsgArtHeight(IF art_start # None THEN IsoDate(art_start)
                            ELSE <<"Unknown date">>, height_val)>>
        ELSE <<>>

\* EncHeightIssues with the bound written as height_val >= 200.
EncHeightIssuesInclusive(d) ==
    Flatten([k \in 1..Len(d.encounters) |->
        LET e == d.encounters[k]
            height_val == float(e.val.height)
        IN  IF /\ e.val.height # None /\ height_val.ok
               /\ (FloatGreater(height_val, 200)
                      \/ (height_val.kind = "finite" /\ ~height_val.neg
                             /\ height_val.whole = 200))
            THEN <<MsgHeight(e.key, height_val)>> ELSE <<>>])

\* Lines 150-157: the bound on the height of every encounter.
EncHeightIssues(d) ==
    Flatten([k \in 1..Len(d.encounters) |->
        LET e == d.encounters[k]
            height_val == float(e.val.height)
        IN  IF e.val.height # None /\ height_val.ok /\ FloatGreater(height_val, 200)
            THEN <<MsgHeight(e.key, height_val)>> ELSE <<>>])

(***************************************************************************)
(* The records validate_ndr is called with.                                *)
(***************************************************************************)
\* The most encounters, regimens and validation flags a record has when
\* more than one entry matters.
MaxEnc == 2

MaxReg == 2

MaxFlags == 2

\* Visit dates as their text: three calendar days in order, and the text
\* 2024-13-01, which has the shape of a date and is none.
D0 == IsoDate(<<2023, 12, 20>>)

D1 == IsoDate(<<2024, 1, 10>>)

D2 == IsoDate(<<2024, 1, 15>>)

D3 == IsoDate(<<2024, 2, 1>>)

BadDate == IsoDate(<<2024, 13, 1>>)

\* 2024-1-5, which strptime accepts, and 2024-02-30, which it does not.
ShortDate == <<"2", "0", "2", "4", "-", "1", "-", "5">>

NoSuchDay == IsoDate(<<2024, 2, 30>>)

ArtStart == <<2024, 1, 15>>

\* Drug codes: two ARV codes, and three spellings around INH.
TDF == <<"T", "D", "F">>

AZT == <<"A", "Z", "T">>

INH == <<"I", "N", "H">>

InhLower == <<"T", "-", "i", "n", "h">>

NotInh == <<"I", "N", "-", "H">>

ART == <<"A", "R", "T">>

Enc(key, arv, tb, height) ==
    [key |-> key, val |-> [arv |-> arv, tb |-> tb, height |-> height]]

Reg(key, code, type, duration, mmd) ==
    [key |-> key,
     val |-> [code |-> code, codetext |-> code, type |-> type,
              duration |-> duration, mmd |-> mmd]]

Lab(key, test_id, collected) ==
    [key |-> key, val |-> [test_id |-> test_id, collected |-> collected]]

\* The ordered dicts of at most n entries of S, no key twice.
DictsUpTo(S, n) ==
    UNION {{s \in [1..k -> S] : \A i, j \in 1..k : i # j => s[i].key # s[j].key} :
           k \in 0..n}

Singles(S) == {<<e>> : e \in S}

TbValues == {None, <<"0">>, <<"1">>, <<"2">>, <<"3">>, <<"4">>, <<"5">>}

\* Encounters: a few entries to combine, and single encounters that vary the
\* TB status, the ARV code and the height.
EncFew ==
    {Enc(Unknown, AZT, <<"0">>, <<"2", "0", "5">>),
     Enc(D1, TDF, <<"0">>, None),
     Enc(D2, AZT, <<"2">>, <<"2", "0", "5">>)}

EncTb == {Enc(k, TDF, tb, None) : k \in {BadDate, D1, ShortDate}, tb \in TbValues}

EncArv == {Enc(k, arv, <<"1">>, None) :
           k \in {Unknown, BadDate, NoSuchDay, ShortDate, D0, D1, D2, D3},
           arv \in {None, Empty, TDF, AZT}}

\* Regimens: a few entries to combine, and single regimens that vary the
\* code, the type, the duration and the MMD value.
RegFew ==
    {Reg(Unknown, INH, None, <<"3", "0">>, None),
     Reg(D0, InhLower, None, <<"2", "0", "0">>, None),
     Reg(D1, TDF, ART, <<"2", "0", "0">>, None),
     Reg(D2, INH, None, <<"3", "1">>, <<"Y">>)}

RegIpt == {Reg(k, code, None, <<"3", "0">>, None) :
           k \in {Unknown, BadDate, ShortDate, D0, D1, D2, D3},
           code \in {INH, InhLower, NotInh, None}}

RegArt == {Reg(k, code, type, <<"3", "0">>, None) :
           k \in {Unknown, D1}, code \in {Empty, TDF, AZT}, type \in {None, ART, TDF}}

Durations ==
    {None, Empty, <<"a", "b", "c">>, <<"0">>, <<"1">>, <<"3", "0">>, <<"3", "1">>,
     <<"1", "8", "0">>, <<"1", "8", "1">>, <<"-", "5">>, <<"0", "2", "0", "0">>,
     <<" ", "2", "0", "0">>, <<"+", "4", "5">>, <<"1", "2", ".", "5">>}

RegDur == {Reg(D1, TDF, None, dur, mmd) :
           dur \in Durations, mmd \in {None, Empty, <<"Y">>}}

\* Flags: absent, or at most MaxFlags of these, repeats allowed.
FlagValues ==
    {FlagMissingArtStart, FlagInvalidId(<<"X", "Y">>),
     address_flags[2], address_flags[5]}

FlagLists == UNION {[1..k -> FlagValues] : k \in 0..MaxFlags}

BasePatient ==
    [hn |-> <<"7">>, tb_id |-> None, dob |-> IsoDate(<<2000, 1, 1>>),
     age |-> <<"2", "3">>, report_date |-> IsoDate(<<2024, 1, 2>>)]

\* Patients: the identifiers vary; one has a wrong age and a height.
Patients ==
    {[BasePatient EXCEPT !.hn = hn, !.tb_id = tb] :
        hn \in {None, Empty, <<"7">>}, tb \in {None, <<"9">>}}
    \cup {[height_at_art_start |-> <<"2", "0", "5">>]
          @@ [BasePatient EXCEPT !.hn = None, !.age = <<"2", "0">>]}
    \cup {[x \in {} |-> None]}

\* Patients for the age check: dates of birth and report dates around a
\* birthday, and reported ages around the computed one.
AgeDobs == {None, IsoDate(<<2000, 1, 1>>), IsoDate(<<2000, 6, 15>>), BadDate}

AgeReportDates ==
    {None, IsoDate(<<2024, 1, 2>>), IsoDate(<<2024, 6, 14>>), IsoDate(<<2024, 6, 15>>),
     IsoDate(<<2024, 7, 1>>), NoSuchDay}

AgeValues ==
    {None, Empty, <<"a", "b", "c">>, <<"2", "1">>, <<"2", "2">>, <<"2", "3">>,
     <<"2", "4">>, <<"2", "5">>, <<"2", "6">>, <<" ", "2", "2">>,
     <<"2", "3", ".", "5">>, <<"-", "1">>}

AgePatients ==
    {[BasePatient EXCEPT !.dob = dob, !.report_date = rpt, !.age = age] :
        dob \in AgeDobs, rpt \in AgeReportDates, age \in AgeValues}

LabLists ==
    << <<>>, <<Lab(D1, <<"V", "L">>, D1)>>,
       <<Lab(D1, None, D1), Lab(D2, <<"V", "L">>, Empty)>> >>

Record(patient, art_start, encounters, regimens, labs) ==
    [patient |-> patient, art_start |-> art_start, encounters |-> encounters,
     regimens |-> regimens, labs |-> labs]

WithFlags(rec, flags) == [validation_flags |-> flags] @@ rec

\* The TB/IPT scenario, the ARV scenario, the duration scenario and the
\* flags scenario: each varies what one group of checks reads.
RecordsTb ==
    {WithFlags(Record(BasePatient, ArtStart, e, r, <<>>), <<>>) :
        e \in Singles(EncTb) \cup DictsUpTo(EncFew, MaxEnc),
        r \in Singles(RegIpt) \cup DictsUpTo(RegFew, MaxReg)}

RecordsArv ==
    {WithFlags(Record(BasePatient, a, e, r, <<>>), <<>>) :
        a \in {None, ArtStart},
        e \in Singles(EncArv),
        r \in Singles(RegArt) \cup {<<>>}}

RecordsDur ==
    {WithFlags(Record(BasePatient, ArtStart, e, r, <<>>), <<>>) :
        e \in DictsUpTo(EncFew, MaxEnc),
        r \in Singles(RegDur)}

RecordsIds ==
    LET recs == {Record(p, a, <<Enc(D2, AZT, <<"2">>, <<"2", "0", "5">>)>>,
                        <<Reg(D2, TDF, ART, <<"9", "0">>, None)>>, l) :
                    p \in Patients, a \in {None, ArtStart}, l \in Range(LabLists)}
    IN  recs \cup {WithFlags(rec, flags) : rec \in recs,
                                           flags \in {<<>>, <<FlagInvalidId(<<"X", "Y">>)>>}}

RecordsFlags ==
    LET wrong == CHOOSE p \in Patients : "height_at_art_start" \in DOMAIN p
        recs  == {Record(wrong, a, e, <<Reg(D2, TDF, ART, <<"9", "0">>, None)>>,
                         LabLists[3]) :
                    a \in {None, ArtStart}, e \in DictsUpTo(EncFew, MaxEnc)}
    IN  recs \cup {WithFlags(rec, flags) : rec \in recs, flags \in FlagLists}

\* Heights: absent, empty, not a number, around the bound of 200, signed,
\* blank-padded, and the two special values float() accepts.
HeightValues ==
    {None, Empty, <<"a", "b", "c">>, <<"1", "9", "9">>, <<"2", "0", "0">>,
     <<"2", "0", "0", ".", "0">>, <<"2", "0", "0", ".", "5">>, <<"2", "0", "5">>,
     <<"-", "2", "0", "5">>, <<" ", "2", "0", "1">>, <<"i", "n", "f">>,
     <<"n", "a", "n">>}

EncHeight == {Enc(k, TDF, <<"1">>, h) : k \in {Unknown, D1}, h \in HeightValues}

HeightPatients ==
    {BasePatient} \cup {[height_at_art_start |-> h] @@ BasePatient :
                           h \in HeightValues \ {None}}

RecordsHeight ==
    {WithFlags(Record(p, a, e, <<>>, <<>>), <<>>) :
        p \in HeightPatients, a \in {None, ArtStart}, e \in Singles(EncHeight)}

RecordsAge ==
    {WithFlags(Record(p, ArtStart, <<>>, <<>>, <<>>), <<>>) : p \in AgePatients}

Records ==
    RecordsTb \cup RecordsArv \cup RecordsDur \cup RecordsIds \cup RecordsFlags
        \cup RecordsAge \cup RecordsHeight

(***************************************************************************)
(* The state machine: one call of validate_ndr on a record, block by       *)
(* block.  pc is the block about to run; "done" is the return of issues,   *)
(* "raised" an exception leaving validate_ndr.                             *)
(***************************************************************************)
\* NextStep with the lab block moved before the ARV/regimen block.
NextStepLabsEarly(step) ==
    CASE step = "call"        -> "identifiers"
      [] step = "identifiers" -> "art_start"
      [] step = "art_start"   -> "address"
      [] step = "address"     -> "encounters"
      [] step = "encounters"  -> "labs"
      [] step = "labs"        -> "mismatch"
      [] step = "mismatch"    -> "age"
      [] step = "age"         -> "heights"
      [] step = "heights"     -> "done"

\* The blocks of validate_ndr in program order.
NextStep(step) ==
    CASE step = "call"        -> "identifiers"
      [] step = "identifiers" -> "art_start"
      [] step = "art_start"   -> "address"
      [] step = "address"     -> "encounters"
      [] step = "encounters"  -> "mismatch"
      [] step = "mismatch"    -> "labs"
      [] step = "labs"        -> "age"
      [] step = "age"         -> "heights"
      [] step = "heights"     -> "done"

\* No file in the directory, no upload received, no page rendered.
NoFiles == [path \in {} |-> None]

NoRequest == [method |-> "none"]

NoResponse == [rendered |-> FALSE]

\* No second request.
NoPeer == [pc |-> "none"]

\* No first call has ended yet.
NoOutcome == [pc |-> "none", issues |-> <<>>]

Init ==
    /\ data \in Records
    /\ pc = "call"
    /\ issues = <<>>
    /\ seen_issues = {}
    /\ ipt_dates = <<>>
    /\ idx = 0
    /\ first = NoOutcome
    /\ files = NoFiles
    /\ request = NoRequest
    /\ response = NoResponse
    /\ peer = NoPeer

\* Lines 4-17: the default for validation_flags, the empty issue list and
\* the set ipt_dates, whose iteration order is the interpreter's choice.
Begin ==
    /\ pc = "call"
    /\ data' = SetDefaultFlags(data)
    /\ issues' = <<>>
    /\ seen_issues' = {}
    /\ \E order \in Orders(IptDateSet(data)) : ipt_dates' = order
    /\ idx' = 0
    /\ pc' = NextStep(pc)
    /\ UNCHANGED first
    /\ UNCHANGED hvars

\* Lines 19-31.
CheckIdentifiers ==
    /\ pc = "identifiers"
    /\ issues' = issues \o InvalidIdIssues(data) \o HnIssues(data)
    /\ pc' = NextStep(pc)
    /\ UNCHANGED <<data, seen_issues, ipt_dates, idx, first>>
    /\ UNCHANGED hvars

\* Lines 35-36.
CheckArtStart ==
    /\ pc = "art_start"
    /\ issues' = issues \o ArtStartIssues(data)
    /\ pc' = NextStep(pc)
    /\ UNCHANGED <<data, seen_issues, ipt_dates, idx, first>>
    /\ UNCHANGED hvars

\* Lines 40-50.
CheckAddress ==
    /\ pc = "address"
    /\ issues' = issues \o AddressIssues(data)
    /\ pc' = NextStep(pc)
    /\ idx' = 1
    /\ UNCHANGED <<data, seen_issues, ipt_dates, first>>
    /\ UNCHANGED hvars

\* Lines 52-110: one iteration of the encounter loop, or the exception that
\* leaves it.
EncounterIteration ==
    /\ pc = "encounters"
    /\ idx <= Len(data.encounters)
    /\ LET e   == data.encounters[idx]
           res == EncounterBody([issues |-> issues, seen |-> seen_issues],
                                e.key, e.val, data, ipt_dates)
       IN  /\ issues' = res.issues
           /\ seen_issues' = res.seen
           /\ pc' = IF res.raised THEN "raised" ELSE pc
           /\ idx' = idx + 1
    /\ UNCHANGED <<data, ipt_dates, first>>
    /\ UNCHANGED hvars

\* The end of the encounter loop.
EncountersDone ==
    /\ pc = "encounters"
    /\ idx > Len(data.encounters)
    /\ pc' = NextStep(pc)
    /\ UNCHANGED <<data, issues, seen_issues, ipt_dates, idx, first>>
    /\ UNCHANGED hvars

\* Lines 113-117.
CheckMismatch ==
    /\ pc = "mismatch"
    /\ issues' = issues \o MismatchIssues(data)
    /\ pc' = NextStep(pc)
    /\ UNCHANGED <<data, seen_issues, ipt_dates, idx, first>>
    /\ UNCHANGED hvars

\* Lines 119-121.
CheckLabs ==
    /\ pc = "labs"
    /\ issues' = issues \o LabIssues(data)
    /\ pc' = NextStep(pc)
    /\ UNCHANGED <<data, seen_issues, ipt_dates, idx, first>>
    /\ UNCHANGED hvars

\* Lines 123-135.
CheckAge ==
    /\ pc = "age"
    /\ issues' = issues \o AgeIssues(data)
    /\ pc' = NextStep(pc)
    /\ UNCHANGED <<data, seen_issues, ipt_dates, idx, first>>
    /\ UNCHANGED hvars

\* Lines 137-160: the height checks, and the return.
CheckHeights ==
    /\ pc = "heights"
    /\ issues' = issues \o ArtHeightIssues(data) \o EncHeightIssues(data)
    /\ pc' = NextStep(pc)
    /\ UNCHANGED <<data, seen_issues, ipt_dates, idx, first>>
    /\ UNCHANGED hvars

\* A second call of validate_ndr on the same record, after the first ended.
CallAgain ==
    /\ pc \in {"done", "raised"}
    /\ first = NoOutcome
    /\ first' = [pc |-> pc, issues |-> issues]
    /\ pc' = "call"
    /\ issues' = <<>>
    /\ seen_issues' = {}
    /\ ipt_dates' = <<>>
    /\ idx' = 0
    /\ UNCHANGED data
    /\ UNCHANGED hvars

Next ==
    \/ Begin
    \/ CheckIdentifiers
    \/ CheckArtStart
    \/ CheckAddress
    \/ EncounterIteration
    \/ EncountersDone
    \/ CheckMismatch
    \/ CheckLabs
    \/ CheckAge
    \/ CheckHeights

Spec == Init /\ [][Next]_vars

\* Two calls in a row on one record.
NextTwice == Next \/ CallAgain

SpecTwice == Init /\ [][NextTwice]_vars

TypeOK ==
    /\ pc \in {"call", "identifiers", "art_start", "address", "encounters",
               "mismatch", "labs", "age", "heights", "done", "raised"}
    /\ idx \in 0..(Len(data.encounters) + 1)

(***************************************************************************)
(* extract_services, block by block (src/ndr_extractor.py).                *)
(*                                                                         *)
(* A file holds text that is not well-formed XML, or a tree.  A tree is a  *)
(* record of the sections root.find() locates, a section that is not in    *)
(* the tree being absent from the record, and of the element lists that    *)
(* root.findall() returns, in document order.  An element is a record of   *)
(* the texts findtext() reads from it: None for a child the element does   *)
(* not have, "" for a child without text.                                  *)
(***************************************************************************)
\* The dict {}.
EmptyDict == [k \in {} |-> None]

\* dict[key] = val, for a dict with optional keys.
SetKey(dict, key, val) ==
    [k \in DOMAIN dict \cup {key} |-> IF k = key THEN val ELSE dict[k]]

\* DictSet that leaves the entry of a key the dict already has.
DictSetKeepFirst(items, key, val) ==
    IF HasKey(items, key) THEN items
    ELSE Append(items, [key |-> key, val |-> val])

\* items[key] = val, for an ordered dict: a key the dict has keeps its place
\* and gets the new value, a new key goes to the end.
DictSet(items, key, val) ==
    IF HasKey(items, key)
    THEN [k \in 1..Len(items) |->
            IF items[k].key = key THEN [key |-> key, val |-> val] ELSE items[k]]
    ELSE Append(items, [key |-> key, val |-> val])

\* Lines 9-16: the record before anything is read.
NewRecord ==
    [encounters |-> <<>>, regimens |-> <<>>, labs |-> <<>>, patient |-> EmptyDict,
     art_start |-> None, validation_flags |-> <<>>]

\* The local variable data before line 9 binds it.
Unbound == [unbound |-> TRUE]

HN == <<"H", "N">>

TB == <<"T", "B">>

\* Lines 32-43: one entry of the identifier list.
Identifier(d, identifier) ==
    LET id_type   == identifier.IDTypeCode
        id_number == identifier.IDNumber
        stored    == IF Truthy(id_type) /\ Truthy(id_number)
                     THEN [d EXCEPT !.patient.other_ids = DictSet(@, id_type, id_number)]
                     ELSE d
    IN  IF id_type = HN THEN [d EXCEPT !.patient.hn = id_number]
        ELSE IF id_type = TB THEN [d EXCEPT !.patient.tb_id = id_number]
        ELSE IF Truthy(id_type) /\ id_type \notin {HN, TB}
        THEN [stored EXCEPT !.validation_flags = Append(@, FlagInvalidId(id_type))]
        ELSE stored

\* Lines 31-43: the loop over the identifier list.
RECURSIVE Identifiers(_, _)
Identifiers(d, list) ==
    IF list = <<>> THEN d
    ELSE Identifiers(Identifier(d, Head(list)), Tail(list))

\* Lines 18-43: the demographics section and its identifiers.
Demographics(root, d) ==
    IF "PatientDemographics" \notin DOMAIN root THEN d
    ELSE LET demo == root.PatientDemographics
             patient == [id |-> demo.PatientIdentifier,
                         dob |-> demo.PatientDateOfBirth,
                         sex |-> demo.PatientSexCode,
                         facility_name |-> demo.FacilityName,
                         facility_id |-> demo.FacilityID,
                         hn |-> None, tb_id |-> None, other_ids |-> <<>>]
         IN  Identifiers([d EXCEPT !.patient = patient], demo.Identifier)

\* Lines 46-49: the reported age and the report date.
Common(root, d) ==
    IF "CommonQuestions" \notin DOMAIN root THEN d
    ELSE LET common == root.CommonQuestions
         IN  [d EXCEPT !.patient =
                SetKey(SetKey(@, "age", common.PatientAge),
                       "report_date", common.DateOfLastReport)]

\* Lines 61-68: one flag per address field that is absent or empty.
AddressFieldFlags(address) ==
    (IF ~Truthy(address.AddressTypeCode) THEN <<address_flags[1]>> ELSE <<>>)
    \o (IF ~Truthy(address.LGACode) THEN <<address_flags[2]>> ELSE <<>>)
    \o (IF ~Truthy(address.StateCode) THEN <<address_flags[3]>> ELSE <<>>)
    \o (IF ~Truthy(address.CountryCode) THEN <<address_flags[4]>> ELSE <<>>)

\* Address with the flags assigned where the code appends them.
AddressAssigningFlags(root, d) ==
    IF "PatientAddress" \notin DOMAIN root
    THEN [d EXCEPT !.validation_flags = <<address_flags[5]>>]
    ELSE [d EXCEPT !.validation_flags = AddressFieldFlags(root.PatientAddress)]

\* Lines 53-70: the address section.
Address(root, d) ==
    IF "PatientAddress" \notin DOMAIN root
    THEN [d EXCEPT !.validation_flags = Append(@, address_flags[5])]
    ELSE LET address == root.PatientAddress
         IN  [d EXCEPT
                !.patient = SetKey(SetKey(SetKey(SetKey(@,
                                "addresscode", address.AddressTypeCode),
                                "lgacode", address.LGACode),
                                "statecode", address.StateCode),
                                "countrycode", address.CountryCode),
                !.validation_flags = @ \o AddressFieldFlags(address)]

\* Lines 72-85: the ART start date and the height at ART start.
HivQuestions(root, d) ==
    IF "HIVQuestions" \notin DOMAIN root THEN d
    ELSE LET hiv_q     == root.HIVQuestions
             art_start == hiv_q.ARTStartDate
             height_at_art_start == hiv_q.ChildHeightAtARTStart
             dated == IF ~Truthy(art_start)
                      THEN [d EXCEPT !.validation_flags = Append(@, FlagMissingArtStart)]
                      ELSE IF strptime(art_start) = ValueError THEN d
                      ELSE [d EXCEPT !.art_start = strptime(art_start)]
         IN  IF Truthy(height_at_art_start)
             THEN [dated EXCEPT !.patient =
                     SetKey(@, "height_at_art_start", height_at_art_start)]
             ELSE dated

\* findtext("VisitDate") or "Unknown".
VisitKey(element) == IF Truthy(element.VisitDate) THEN element.VisitDate ELSE Unknown

\* Lines 89-95: the entry of one Regimen element.
RegimenEntry(reg) ==
    [code |-> OrEmpty(reg.Code), codetext |-> OrEmpty(reg.CodeDescTxt),
     type |-> reg.PrescribedRegimenTypeCode,
     duration |-> reg.PrescribedRegimenDuration,
     mmd |-> reg.MultiMonthDispensing]

\* Lines 99-103: the entry of one HIVEncounter element.
EncounterEntry(enc) ==
    [arv |-> enc.Code, tb |-> enc.TBStatus, height |-> enc.ChildHeight]

\* Lines 107-110: the entry of one LaboratoryReport element.
LabEntry(lab) ==
    [test_id |-> lab.LaboratoryTestIdentifier, collected |-> lab.CollectionDate]

\* Lines 87-95: the loop over the Regimen elements.
RECURSIVE Regimens(_, _)
Regimens(items, list) ==
    IF list = <<>> THEN items
    ELSE Regimens(DictSet(items, VisitKey(Head(list)), RegimenEntry(Head(list))),
                  Tail(list))

\* Lines 97-103: the loop over the HIVEncounter elements.
RECURSIVE Encounters(_, _)
Encounters(items, list) ==
    IF list = <<>> THEN items
    ELSE Encounters(DictSet(items, VisitKey(Head(list)), EncounterEntry(Head(list))),
                    Tail(list))

\* Lines 105-110: the loop over the LaboratoryReport elements.
RECURSIVE Labs(_, _)
Labs(items, list) ==
    IF list = <<>> THEN items
    ELSE Labs(DictSet(items, VisitKey(Head(list)), LabEntry(Head(list))), Tail(list))

(***************************************************************************)
(* The documents extract_services is called on.                            *)
(***************************************************************************)
\* The most identifier entries and the most elements of one kind a document
\* has when more than one matters.
MaxIds == 2

MaxElems == 2

\* The path extract_services is given.
XmlPath == "record.xml"

NotWellFormed == [wellformed |-> FALSE]

DemoElement(dob, identifiers) ==
    [PatientIdentifier |-> <<"P", "1">>, PatientDateOfBirth |-> dob,
     PatientSexCode |-> <<"F">>, FacilityName |-> None, FacilityID |-> Empty,
     Identifier |-> identifiers]

IdElement(id_type, id_number) == [IDTypeCode |-> id_type, IDNumber |-> id_number]

CommonElement(age, report_date) == [PatientAge |-> age, DateOfLastReport |-> report_date]

AddressElement(type, lga, state, country) ==
    [AddressTypeCode |-> type, LGACode |-> lga, StateCode |-> state,
     CountryCode |-> country]

HivElement(art_start, height) ==
    [ARTStartDate |-> art_start, ChildHeightAtARTStart |-> height]

RegimenElement(date, code, desc, type, duration, mmd) ==
    [VisitDate |-> date, Code |-> code, CodeDescTxt |-> desc,
     PrescribedRegimenTypeCode |-> type, PrescribedRegimenDuration |-> duration,
     MultiMonthDispensing |-> mmd]

EncounterElement(date, arv, tb, height) ==
    [VisitDate |-> date, Code |-> arv, TBStatus |-> tb, ChildHeight |-> height]

LabElement(date, test_id, collected) ==
    [VisitDate |-> date, LaboratoryTestIdentifier |-> test_id,
     CollectionDate |-> collected]

\* A well-formed document: the sections it has, and its repeated elements.
Tree(sections, regimens, encounters, labs) ==
    [wellformed |-> TRUE,
     root |-> sections @@ [Regimen |-> regimens, HIVEncounter |-> encounters,
                           LaboratoryReport |-> labs]]

\* The sections a document has or lacks, one by one.
DemoSections ==
    {EmptyDict,
     [PatientDemographics |-> DemoElement(IsoDate(<<2000, 1, 1>>), <<>>)]}

CommonSections ==
    {EmptyDict, [CommonQuestions |-> CommonElement(<<"2", "3">>, IsoDate(<<2024, 1, 2>>))]}

AddressSections ==
    {EmptyDict, [PatientAddress |-> AddressElement(Empty, Empty, Empty, Empty)]}
    \cup {[PatientAddress |-> AddressElement(t, l, s, c)] :
            t \in {None, <<"H">>}, l \in {None, <<"5">>},
            s \in {None, <<"3">>}, c \in {None, <<"N", "G">>}}

HivSections ==
    {EmptyDict}
    \cup {[HIVQuestions |-> HivElement(a, h)] :
            a \in {None, Empty, D2, BadDate}, h \in {None, Empty, <<"2", "0", "5">>}}

IdElements ==
    {IdElement(HN, <<"7">>), IdElement(HN, None), IdElement(TB, <<"9">>),
     IdElement(<<"X", "Y">>, <<"5">>), IdElement(<<"X", "Y">>, None),
     IdElement(<<"P", "N">>, Empty), IdElement(None, <<"5">>),
     IdElement(Empty, <<"5">>)}

\* The elements of one kind: the visit date absent, empty or one of two
\* days, and two elements per date that differ in every field.
RegimenElements ==
    {RegimenElement(date, TDF, TDF, ART, <<"3", "0">>, <<"Y">>) :
        date \in {None, Empty, D1, D2}}
    \cup {RegimenElement(date, None, None, None, None, None) : date \in {None, D1, D2}}

EncounterElements ==
    {EncounterElement(date, TDF, <<"1">>, <<"1", "2", "0">>) :
        date \in {None, Empty, D1, D2}}
    \cup {EncounterElement(date, None, None, None) : date \in {None, D1, D2}}

LabElements ==
    {LabElement(date, <<"V", "L">>, D1) : date \in {None, Empty, D1, D2}}
    \cup {LabElement(date, None, None) : date \in {None, D1, D2}}

SeqsUpTo(S, n) == UNION {[1..k -> S] : k \in 0..n}

AllSections ==
    [PatientDemographics |-> DemoElement(IsoDate(<<2000, 1, 1>>), <<>>),
     CommonQuestions |-> CommonElement(<<"2", "3">>, IsoDate(<<2024, 1, 2>>)),
     PatientAddress |-> AddressElement(<<"H">>, <<"5">>, <<"3">>, <<"N", "G">>),
     HIVQuestions |-> HivElement(D2, None)]

DocumentsSections ==
    {Tree(demo @@ common @@ address @@ hiv, <<>>, <<>>, <<>>) :
        demo \in DemoSections, common \in CommonSections,
        address \in AddressSections, hiv \in HivSections}

DocumentsIds ==
    {Tree([AllSections EXCEPT !.PatientDemographics.Identifier = identifiers],
          <<>>, <<>>, <<>>) :
        identifiers \in SeqsUpTo(IdElements, MaxIds)}

DocumentsElements ==
    {Tree(AllSections, regimens, <<>>, <<>>) :
        regimens \in SeqsUpTo(RegimenElements, MaxElems)}
    \cup {Tree(AllSections, <<>>, encounters, <<>>) :
            encounters \in SeqsUpTo(EncounterElements, MaxElems)}
    \cup {Tree(AllSections, <<>>, <<>>, labs) :
            labs \in SeqsUpTo(LabElements, MaxElems)}

\* Documents whose regimen is IPT, dated or not, next to a dated encounter.
DocumentsTb ==
    {Tree(AllSections,
          <<RegimenElement(date, INH, INH, None, <<"3", "0">>, None)>>,
          <<EncounterElement(D1, TDF, tb, None)>>, <<>>) :
        date \in {None, D0, D2, BadDate, NoSuchDay}, tb \in {<<"0">>, <<"1">>, <<"2">>}}

\* Documents that get flags in each of the three blocks that raise them.
DocumentsFlags ==
    {Tree([PatientDemographics |->
               DemoElement(IsoDate(<<2000, 1, 1>>),
                           <<IdElement(<<"X", "Y">>, <<"5">>), IdElement(HN, <<"7">>)>>),
           HIVQuestions |-> HivElement(Empty, None)] @@ address,
          <<>>, <<EncounterElement(D1, TDF, <<"1">>, None)>>, <<>>) :
        address \in {EmptyDict,
                     [PatientAddress |-> AddressElement(<<"H">>, None, Empty, <<"N", "G">>)]}}

Documents ==
    {NotWellFormed} \cup DocumentsSections \cup DocumentsIds \cup DocumentsElements
        \cup DocumentsTb \cup DocumentsFlags

(***************************************************************************)
(* The state machine of extract_services(XmlPath): pc is the block about   *)
(* to run; "extracted" is the return of data, "ParseError" and             *)
(* "FileNotFoundError" an exception leaving ET.parse.                      *)
(***************************************************************************)
\* The blocks of extract_services in program order.
ExtractStep(step) ==
    CASE step = "extract_parse"        -> "extract_demographics"
      [] step = "extract_demographics" -> "extract_common"
      [] step = "extract_common"       -> "extract_address"
      [] step = "extract_address"      -> "extract_hiv"
      [] step = "extract_hiv"          -> "extract_regimens"
      [] step = "extract_regimens"     -> "extract_encounters"
      [] step = "extract_encounters"   -> "extract_labs"
      [] step = "extract_labs"         -> "extracted"

\* The outcome of ET.parse(path) on the files fs.
ParseOutcome(fs, path) ==
    IF path \notin DOMAIN fs THEN "FileNotFoundError"
    ELSE IF ~fs[path].wellformed THEN "ParseError"
    ELSE "tree"

\* tree.getroot() of the file at XmlPath.
Root == files[XmlPath].root

InitExtract ==
    /\ \E doc \in Documents : files = [path \in {XmlPath} |-> doc]
    /\ data = Unbound
    /\ pc = "extract_parse"
    /\ issues = <<>>
    /\ seen_issues = {}
    /\ ipt_dates = <<>>
    /\ idx = 0
    /\ first = NoOutcome
    /\ request = NoRequest
    /\ response = NoResponse
    /\ peer = NoPeer

\* Lines 6-16: the parse of the file, and the empty record.
ExtractParse ==
    /\ pc = "extract_parse"
    /\ IF ParseOutcome(files, XmlPath) = "tree"
       THEN data' = NewRecord /\ pc' = ExtractStep(pc)
       ELSE data' = data /\ pc' = ParseOutcome(files, XmlPath)
    /\ UNCHANGED <<issues, seen_issues, ipt_dates, idx, first>>
    /\ UNCHANGED hvars

\* Lines 18-43.
ExtractDemographics ==
    /\ pc = "extract_demographics"
    /\ data' = Demographics(Root, data)
    /\ pc' = ExtractStep(pc)
    /\ UNCHANGED <<issues, seen_issues, ipt_dates, idx, first>>
    /\ UNCHANGED hvars

\* Lines 46-49.
ExtractCommon ==
    /\ pc = "extract_common"
    /\ data' = Common(Root, data)
    /\ pc' = ExtractStep(pc)
    /\ UNCHANGED <<issues, seen_issues, ipt_dates, idx, first>>
    /\ UNCHANGED hvars

\* Lines 53-70.
ExtractAddress ==
    /\ pc = "extract_address"
    /\ data' = Address(Root, data)
    /\ pc' = ExtractStep(pc)
    /\ UNCHANGED <<issues, seen_issues, ipt_dates, idx, first>>
    /\ UNCHANGED hvars

\* Lines 72-85.
ExtractHivQuestions ==
    /\ pc = "extract_hiv"
    /\ data' = HivQuestions(Root, data)
    /\ pc' = ExtractStep(pc)
    /\ UNCHANGED <<issues, seen_issues, ipt_dates, idx, first>>
    /\ UNCHANGED hvars

\* Lines 87-95.
ExtractRegimens ==
    /\ pc = "extract_regimens"
    /\ data' = [data EXCEPT !.regimens = Regimens(@, Root.Regimen)]
    /\ pc' = ExtractStep(pc)
    /\ UNCHANGED <<issues, seen_issues, ipt_dates, idx, first>>
    /\ UNCHANGED hvars

\* Lines 97-103.
ExtractEncounters ==
    /\ pc = "extract_encounters"
    /\ data' = [data EXCEPT !.encounters = Encounters(@, Root.HIVEncounter)]
    /\ pc' = ExtractStep(pc)
    /\ UNCHANGED <<issues, seen_issues, ipt_dates, idx, first>>
    /\ UNCHANGED hvars

\* Lines 105-112: the lab reports, and the return.
ExtractLabs ==
    /\ pc = "extract_labs"
    /\ data' = [data EXCEPT !.labs = Labs(@, Root.LaboratoryReport)]
    /\ pc' = ExtractStep(pc)
    /\ UNCHANGED <<issues, seen_issues, ipt_dates, idx, first>>
    /\ UNCHANGED hvars

NextExtract ==
    \/ ExtractParse
    \/ ExtractDemographics
    \/ ExtractCommon
    \/ ExtractAddress
    \/ ExtractHivQuestions
    \/ ExtractRegimens
    \/ ExtractEncounters
    \/ ExtractLabs

SpecExtract == InitExtract /\ [][NextExtract]_vars

(***************************************************************************)
(* The two stages in a row: the record extract_services returns is the     *)
(* argument of validate_ndr.                                               *)
(***************************************************************************)
\* ndr_extractor.py line 112 and ndr_validator.py line 3: the returned
\* record becomes the parameter data of validate_ndr.
PassRecord ==
    /\ pc = "extracted"
    /\ pc' = "call"
    /\ UNCHANGED <<data, issues, seen_issues, ipt_dates, idx, first>>
    /\ UNCHANGED hvars

NextPipeline == NextExtract \/ PassRecord \/ Next

SpecPipeline == InitExtract /\ [][NextPipeline]_vars

(***************************************************************************)
(* The upload handler and the extract_services and validate_ndr of its own *)
(* module (src/app.py), which it calls.                                    *)
(***************************************************************************)
\* app.py lines 177-183: the record before anything is read.
AppNewRecord ==
    [encounters |-> <<>>, regimens |-> <<>>, labs |-> <<>>, patient |-> EmptyDict,
     art_start |-> None]

\* app.py lines 198-203: one entry of the identifier list.
AppIdentifier(d, identifier) ==
    IF identifier.IDTypeCode = HN THEN [d EXCEPT !.patient.hn = identifier.IDNumber]
    ELSE IF identifier.IDTypeCode = TB THEN [d EXCEPT !.patient.tb_id = identifier.IDNumber]
    ELSE d

RECURSIVE AppIdentifiers(_, _)
AppIdentifiers(d, list) ==
    IF list = <<>> THEN d
    ELSE AppIdentifiers(AppIdentifier(d, Head(list)), Tail(list))

\* app.py lines 185-203.
AppDemographics(root, d) ==
    IF "PatientDemographics" \notin DOMAIN root THEN d
    ELSE LET demo == root.PatientDemographics
             patient == [id |-> demo.PatientIdentifier,
                         dob |-> demo.PatientDateOfBirth,
                         sex |-> demo.PatientSexCode,
                         facility_name |-> demo.FacilityName,
                         facility_id |-> demo.FacilityID,
                         hn |-> None, tb_id |-> None]
         IN  AppIdentifiers([d EXCEPT !.patient = patient], demo.Identifier)

\* app.py lines 211-218.
AppHivQuestions(root, d) ==
    IF "HIVQuestions" \notin DOMAIN root THEN d
    ELSE LET art_start == root.HIVQuestions.ARTStartDate
         IN  IF Truthy(art_start) /\ strptime(art_start) # ValueError
             THEN [d EXCEPT !.art_start = strptime(art_start)]
             ELSE d

\* app.py lines 222-227 and 231-234: the entries of a Regimen and of an
\* HIVEncounter element.
AppRegimenEntry(reg) ==
    [code |-> OrEmpty(reg.Code), type |-> reg.PrescribedRegimenTypeCode,
     duration |-> reg.PrescribedRegimenDuration, mmd |-> reg.MultiMonthDispensing]

AppEncounterEntry(enc) == [arv |-> enc.Code, tb |-> enc.TBStatus]

RECURSIVE AppRegimens(_, _)
AppRegimens(items, list) ==
    IF list = <<>> THEN items
    ELSE AppRegimens(DictSet(items, VisitKey(Head(list)), AppRegimenEntry(Head(list))),
                     Tail(list))

RECURSIVE AppEncounters(_, _)
AppEncounters(items, list) ==
    IF list = <<>> THEN items
    ELSE AppEncounters(DictSet(items, VisitKey(Head(list)), AppEncounterEntry(Head(list))),
                       Tail(list))

\* app.py lines 175-243: extract_services on a parsed tree.
AppExtract(root) ==
    LET d == AppHivQuestions(root, Common(root, AppDemographics(root, AppNewRecord)))
    IN  [d EXCEPT !.regimens = AppRegimens(@, root.Regimen),
                  !.encounters = AppEncounters(@, root.HIVEncounter),
                  !.labs = Labs(@, root.LaboratoryReport)]

\* str(exc) of the ValueError of strptime(s): the text has the shape of a
\* date whose day, of 1..31, does not exist in its month, or it has not the
\* shape of a date.
StrptimeMessage(s) ==
    LET dashes == {k \in 1..Len(s) : s[k] = "-"}
        last   == CHOOSE k \in dashes : \A j \in dashes : j <= k
        ds     == SubSeq(s, last + 1, Len(s))
    IN  IF /\ dashes # {}
           /\ AllDigits(ds) /\ Len(ds) <= 2 /\ DigitsVal(ds) \in 1..31
           /\ strptime(SubSeq(s, 1, last) \o <<"1">>) # ValueError
        THEN <<"day is out of range for month">>
        ELSE <<"time data '">> \o s \o <<"' does not match format '%Y-%m-%d'">>

\* The IPT date whose strptime raises, when AnyIpt(order, ...) raises: the
\* first in iteration order that does not parse.
RECURSIVE RaisingDate(_)
RaisingDate(order) ==
    IF strptime(Head(order)) = ValueError THEN Head(order) ELSE RaisingDate(Tail(order))

\* app.py lines 260-269: the ARV-code and chronology checks.
AppChronologyIssues(date, enc, art_start) ==
    LET visit_dt == strptime(date)
    IN  (IF ~Truthy(enc.arv) THEN <<MsgArvMissing(date)>> ELSE <<>>)
        \o (IF visit_dt = ValueError THEN <<MsgBadVisitDate(date)>>
            ELSE IF art_start # None /\ DtLess(visit_dt, art_start)
            THEN <<MsgPrecedes(date, art_start)>> ELSE <<>>)

\* app.py lines 255-293: the encounter loop.  The result is [raised, exc,
\* issues]: whether ValueError escaped, its text, and the issues appended.
RECURSIVE AppEncounterLoop(_, _, _, _)
AppEncounterLoop(acc, encs, d, order) ==
    IF encs = <<>> THEN [raised |-> FALSE, exc |-> <<>>, issues |-> acc]
    ELSE LET date == Head(encs).key
             enc  == Head(encs).val
             tb   == TbIssues(date, enc, order)
         IN  IF date = Unknown
             THEN AppEncounterLoop(Append(acc, MsgNoVisitDate), Tail(encs), d, order)
             ELSE IF tb.raised
             THEN [raised |-> TRUE, exc |-> StrptimeMessage(RaisingDate(order)),
                   issues |-> acc]
             ELSE AppEncounterLoop(
                      acc \o AppChronologyIssues(date, enc, d.art_start) \o tb.out,
                      Tail(encs), d, order)

\* app.py lines 295-301: the MMD check, once per regimen.
AppRegimenIssues(d) ==
    Flatten([k \in 1..Len(d.regimens) |->
        LET reg == d.regimens[k]
            dur == IF Truthy(reg.val.duration) THEN int(reg.val.duration)
                   ELSE [ok |-> TRUE, val |-> 0]
        IN  IF ~dur.ok THEN <<MsgNotNumeric(reg.key)>>
            ELSE IF dur.val > 30 /\ ~Truthy(reg.val.mmd) THEN <<MsgNoMmd(reg.key)>>
            ELSE <<>>])

\* app.py lines 248-327: validate_ndr, for one iteration order of ipt_dates.
AppValidate(d, order) ==
    LET loop == AppEncounterLoop(<<>>, d.encounters, d, order)
    IN  IF loop.raised THEN loop
        ELSE [loop EXCEPT !.issues =
                @ \o AppRegimenIssues(d) \o MismatchIssues(d) \o LabIssues(d)
                  \o AgeIssues(d)]

\* The error messages of upload_file.
MsgNoFile == <<Cross, "No file selected.">>

MsgNotXml == <<Cross, "Only .xml files are accepted.">>

MsgNotWellFormed == <<Cross, "Uploaded file is not well-formed XML.">>

MsgUnexpected(exc) == <<Cross, "Unexpected error: ">> \o exc

\* str(exc) of the FileNotFoundError of ET.parse(path).
NoSuchFileMessage(path) ==
    <<"[Errno 2] No such file or directory: '">> \o path \o <<"'">>

\* str.lower(), token by token, and str.endswith().
LowerChar(c) ==
    CASE c = "X" -> "x"
      [] c = "M" -> "m"
      [] c = "L" -> "l"
      [] c = "R" -> "r"
      [] OTHER -> c

lower(s) == [k \in 1..Len(s) |-> LowerChar(s[k])]

endswith(s, suffix) ==
    /\ Len(s) >= Len(suffix)
    /\ SubSeq(s, Len(s) - Len(suffix) + 1, Len(s)) = suffix

\* os.path.join(tempfile.gettempdir(), filename).
TempPath(filename) == <<"/tmp/">> \o filename

\* The uploads: no file part, or a file with its name and its content.
XmlName == <<"r", ".", "x", "m", "l">>

XmlNameUpper == <<"R", ".", "X", "M", "L">>

Filenames == {Empty, XmlName, XmlNameUpper, <<"r", ".", "t", "x", "t">>, <<"x", "m", "l">>}

NoUpload == [present |-> FALSE]

Upload(filename, content) ==
    [present |-> TRUE, filename |-> filename, content |-> content]

Requests ==
    {[method |-> "GET"], [method |-> "POST", file |-> NoUpload]}
    \cup {[method |-> "POST", file |-> Upload(filename, content)] :
            filename \in Filenames,
            content \in {NotWellFormed, Tree(AllSections, <<>>, <<>>, <<>>)}}
    \cup {[method |-> "POST", file |-> Upload(filename, content)] :
            filename \in {XmlName, XmlNameUpper}, content \in Documents}

\* The path the handler saves the upload under.
Path == TempPath(request.file.filename)

InitUpload ==
    /\ request \in Requests
    /\ files = NoFiles
    /\ response = NoResponse
    /\ peer = NoPeer
    /\ data = Unbound
    /\ pc = "upload"
    /\ issues = <<>>
    /\ seen_issues = {}
    /\ ipt_dates = <<>>
    /\ idx = 0
    /\ first = NoOutcome

\* app.py lines 334-344: the locals, unset, and the requests without a
\* usable file.  A local that is None is absent from response.
UploadCheck ==
    /\ pc = "upload"
    /\ IF request.method # "POST" THEN pc' = "upload_render" /\ response' = response
       ELSE IF ~request.file.present \/ request.file.filename = Empty
       THEN pc' = "upload_render" /\ response' = [error_message |-> MsgNoFile] @@ response
       ELSE IF ~endswith(lower(request.file.filename), <<".", "x", "m", "l">>)
       THEN pc' = "upload_render" /\ response' = [error_message |-> MsgNotXml] @@ response
       ELSE pc' = "upload_save" /\ response' = response
    /\ UNCHANGED <<data, issues, seen_issues, ipt_dates, idx, first, files, request>>
    /\ UNCHANGED peer

\* app.py lines 346-348: the file is saved under its own name.
UploadSave ==
    /\ pc = "upload_save"
    /\ files' = [path \in DOMAIN files \cup {Path} |->
                    IF path = Path THEN request.file.content ELSE files[path]]
    /\ pc' = "upload_extract"
    /\ UNCHANGED <<data, issues, seen_issues, ipt_dates, idx, first, request, response>>
    /\ UNCHANGED peer

\* UploadExtract with an extract_services that catches the ParseError and
\* returns the record of lines 177-183.
UploadExtractSwallow ==
    /\ pc = "upload_extract"
    /\ data' = IF ParseOutcome(files, Path) = "tree" THEN AppExtract(files[Path].root)
               ELSE AppNewRecord
    /\ pc' = "upload_validate"
    /\ UNCHANGED <<issues, seen_issues, ipt_dates, idx, first, files, request, response>>
    /\ UNCHANGED peer

\* app.py line 351 with lines 357-360: data = extract_services(path), or
\* the except clause of its exception.
UploadExtract ==
    /\ pc = "upload_extract"
    /\ CASE ParseOutcome(files, Path) = "tree" ->
              /\ data' = AppExtract(files[Path].root)
              /\ response' = response
              /\ pc' = "upload_validate"
         [] ParseOutcome(files, Path) = "ParseError" ->
              /\ data' = data
              /\ response' = [error_message |-> MsgNotWellFormed] @@ response
              /\ pc' = "upload_finally"
         [] ParseOutcome(files, Path) = "FileNotFoundError" ->
              /\ data' = data
              /\ response' = [error_message |-> MsgUnexpected(NoSuchFileMessage(Path))]
                                @@ response
              /\ pc' = "upload_finally"
    /\ UNCHANGED <<issues, seen_issues, ipt_dates, idx, first, files, request>>
    /\ UNCHANGED peer

\* app.py lines 352-356 with lines 359-360: issues = validate_ndr(data),
\* patient and art_start, or the except clause of the ValueError, which
\* leaves all three unset.  An art_start that is None stays unset.
UploadValidate ==
    /\ pc = "upload_validate"
    /\ \E order \in Orders(IptDateSet(data)) :
          LET res == AppValidate(data, order)
              art == IF data.art_start = None THEN EmptyDict
                     ELSE [art_start |-> data.art_start]
          IN  response' =
                 IF res.raised
                 THEN [error_message |-> MsgUnexpected(res.exc)] @@ response
                 ELSE [issues |-> res.issues, patient |-> data.patient] @@ art @@ response
    /\ pc' = "upload_finally"
    /\ UNCHANGED <<data, issues, seen_issues, ipt_dates, idx, first, files, request>>
    /\ UNCHANGED peer

\* app.py line 362: os.path.exists(path).
UploadFinally ==
    /\ pc = "upload_finally"
    /\ pc' = IF Path \in DOMAIN files THEN "upload_remove" ELSE "upload_render"
    /\ UNCHANGED <<data, issues, seen_issues, ipt_dates, idx, first, files, request,
                   response>>
    /\ UNCHANGED peer

\* UploadRemove as the last statement of the try body in place of the
\* finally clause: no removal after an exception.
UploadRemoveOnSuccess ==
    /\ pc = "upload_remove"
    /\ files' = IF "error_message" \in DOMAIN response THEN files
                ELSE [path \in DOMAIN files \ {Path} |-> files[path]]
    /\ pc' = "upload_render"
    /\ UNCHANGED <<data, issues, seen_issues, ipt_dates, idx, first, request, response>>
    /\ UNCHANGED peer

\* app.py line 363: os.remove(path), which raises FileNotFoundError out of
\* upload_file when the file is no longer there.
UploadRemove ==
    /\ pc = "upload_remove"
    /\ files' = [path \in DOMAIN files \ {Path} |-> files[path]]
    /\ pc' = IF Path \in DOMAIN files THEN "upload_render" ELSE "upload_raised"
    /\ UNCHANGED <<data, issues, seen_issues, ipt_dates, idx, first, request, response>>
    /\ UNCHANGED peer

\* app.py lines 365-369: the page is rendered from the four locals.
UploadRender ==
    /\ pc = "upload_render"
    /\ response' = [response EXCEPT !.rendered = TRUE]
    /\ pc' = "rendered"
    /\ UNCHANGED <<data, issues, seen_issues, ipt_dates, idx, first, files, request>>
    /\ UNCHANGED peer

NextUpload ==
    \/ UploadCheck
    \/ UploadSave
    \/ UploadExtract
    \/ UploadValidate
    \/ UploadFinally
    \/ UploadRemove
    \/ UploadRender

SpecUpload == InitUpload /\ [][NextUpload]_vars

\* A direct call of extract_services, or an upload.
InitIntake == InitExtract \/ InitUpload

NextIntake == NextExtract \/ NextUpload

SpecIntake == InitIntake /\ [][NextIntake]_vars

(***************************************************************************)
(* Two requests in two threads of one server.  Each thread has its own     *)
(* locals; the threads share the temporary directory.  The variables hold  *)
(* the locals of the thread that runs, peer those of the thread that       *)
(* waits, and a switch of threads exchanges them.  A step of the handler   *)
(* is one access to the directory: the save, the read by extract_services, *)
(* the test for the file and its removal.                                  *)
(***************************************************************************)
\* The documents of the concurrent uploads: one that is not well-formed,
\* two of different patients, and one on which validate_ndr raises.
TreeOf(dob) ==
    Tree([AllSections EXCEPT !.PatientDemographics.PatientDateOfBirth = dob],
         <<>>, <<>>, <<>>)

RaisingTree ==
    Tree(AllSections, <<RegimenElement(BadDate, INH, INH, None, <<"3", "0">>, None)>>,
         <<EncounterElement(D1, TDF, <<"0">>, None)>>, <<>>)

RequestsConcurrent ==
    {[method |-> "GET"],
     [method |-> "POST", file |-> Upload(<<"r", ".", "t", "x", "t">>, NotWellFormed)]}
    \cup {[method |-> "POST", file |-> Upload(filename, content)] :
            filename \in {XmlName, XmlNameUpper},
            content \in {NotWellFormed, TreeOf(IsoDate(<<2000, 1, 1>>)),
                         TreeOf(IsoDate(<<2001, 1, 1>>)), RaisingTree}}

\* The locals of a request that has not begun.
Waiting(req) ==
    [pc |-> "upload", request |-> req, data |-> Unbound, response |-> NoResponse]

InitConcurrent ==
    /\ request \in RequestsConcurrent
    /\ peer \in {Waiting(req) : req \in RequestsConcurrent}
    /\ files = NoFiles
    /\ response = NoResponse
    /\ data = Unbound
    /\ pc = "upload"
    /\ issues = <<>>
    /\ seen_issues = {}
    /\ ipt_dates = <<>>
    /\ idx = 0
    /\ first = NoOutcome

\* The other thread runs from here on.
Switch ==
    /\ peer # NoPeer
    /\ peer' = [pc |-> pc, request |-> request, data |-> data, response |-> response]
    /\ pc' = peer.pc
    /\ request' = peer.request
    /\ data' = peer.data
    /\ response' = peer.response
    /\ UNCHANGED <<issues, seen_issues, ipt_dates, idx, first, files>>

NextConcurrent == NextUpload \/ Switch

SpecConcurrent == InitConcurrent /\ [][NextConcurrent]_vars

(***************************************************************************)
(* The properties.                                                         *)
(***************************************************************************)
\* validate_ndr has returned its issue list.
Returned == pc = "done"

\* How often msg occurs in the list.
Count(list, msg) == Cardinality({k \in 1..Len(list) : list[k] = msg})

\* The string s starts with the tokens of prefix.
StartsWith(s, prefix) ==
    /\ Len(s) >= Len(prefix)
    /\ \A j \in 1..Len(prefix) : s[j] = prefix[j]

\* The regimen r counts as IPT: its code contains INH in any letter case.
IsIpt(r) ==
    /\ r.val.code # None
    /\ \E k \in 0..(Len(r.val.code) - 3) :
          /\ r.val.code[k + 1] \in {"I", "i"}
          /\ r.val.code[k + 2] \in {"N", "n"}
          /\ r.val.code[k + 3] \in {"H", "h"}

Parses(date) == strptime(date) # ValueError

\* C1: validate_ndr never raises, whatever the data values of the record:
\* no call ends with an exception.
C1_NeverRaises == pc # "raised"

\* C2: two calls of validate_ndr on the same record end the same way, with
\* equal issue lists in equal order, whatever the iteration order of
\* ipt_dates in each call.
C2_Deterministic ==
    (first # NoOutcome /\ pc \in {"done", "raised"})
        => /\ first.pc = pc
           /\ pc = "done" => first.issues = issues

\* C3: validate_ndr leaves the record it is given as it was, also a record
\* without a validation_flags entry: no step changes data.
C3_NoSideEffect == [][data' = data]_vars

\* The block of validate_ndr that writes a message, by its fixed text.
IdentifierTexts ==
    {"Invalid identifier",
     "Missing valid Treatment Patient identifier (HN). Supplied TB ID: "}

EncounterTexts ==
    {"Encounter missing VisitDate.", ": ARVDrugRegimen/Code is missing.",
     ": Encounter precedes ARTStartDate (", ": ARTStartDate Missing.",
     ": VisitDate has invalid format.", ": TBStatus is missing.",
     ": TBStatus 0 but no IPT (INH) regimen on/after this date.",
     ": IPT recorded for TBStatus ", ": PrescribedRegimenDuration ",
     ": Regimen duration >30 days but MMD not specified.",
     ": Regimen duration not numeric."}

AgeTexts == {"Reported age (", "Unable to validate age (date format issue)."}

HeightTexts == {"ART Start (", ": Child Height > 200 ("}

StepOf(msg) ==
    CASE Range(msg) \cap IdentifierTexts # {} -> 1
      [] msg = MsgArtStartMissing -> 2
      [] Tail(msg) \in Range(address_flags) -> 3
      [] Range(msg) \cap EncounterTexts # {} -> 4
      [] ": ARV code mismatch (Encounter=" \in Range(msg) -> 5
      [] ": Lab report missing test ID or collection date." \in Range(msg) -> 6
      [] Range(msg) \cap AgeTexts # {} -> 7
      [] Range(msg) \cap HeightTexts # {} -> 8
      [] OTHER -> 0

\* C4: the issue list is ordered by processing step: identifier issues, the
\* ART-start presence issue, address issues, the issues of the encounter
\* loop, ARV-mismatch issues, lab issues, the age message, height issues.
C4_IssuesOrdered ==
    Returned =>
        /\ \A k \in 1..Len(issues) : StepOf(issues[k]) \in 1..8
        /\ \A j, k \in 1..Len(issues) : j < k => StepOf(issues[j]) <= StepOf(issues[k])

\* A returned list with an issue of every one of the eight steps.
C4_Witness ==
    /\ Returned
    /\ \A step \in 1..8 : \E k \in 1..Len(issues) : StepOf(issues[k]) = step

\* The issues about the hospital number, whatever TB identifier they name.
HnIssueCount ==
    Cardinality({k \in 1..Len(issues) :
        StartsWith(issues[k],
            <<Cross, "Missing valid Treatment Patient identifier (HN). Supplied TB ID: ">>)})

\* C5: a record without hn gets the missing-HN issue exactly once, naming
\* the supplied TB identifier (or None); a record with hn never gets it.
C5_HnIssueOnce ==
    Returned =>
        IF Get(data.patient, "hn") = None
        THEN /\ HnIssueCount = 1
             /\ Count(issues, MsgMissingHN(Get(data.patient, "tb_id"))) = 1
        ELSE HnIssueCount = 0

\* A returned list for a record without hn and with a TB identifier.
C5_Witness ==
    /\ Returned
    /\ Get(data.patient, "hn") = None
    /\ Get(data.patient, "tb_id") # None
    /\ HnIssueCount = 1

\* C6: the ART-start presence message appears exactly once when the flag
\* "Missing ARTStartDate" is set or art_start is unset, however many
\* encounters there are and however often the flag occurs, and not at all
\* when the flag is absent and art_start is set.
C6_ArtStartIssueOnce ==
    Returned =>
        Count(issues, MsgArtStartMissing) =
            IF \/ FlagMissingArtStart \in Range(data.validation_flags)
               \/ data.art_start = None
            THEN 1 ELSE 0

\* A returned list for a record with the flag twice and two encounters.
C6_Witness ==
    /\ Returned
    /\ Count(data.validation_flags, FlagMissingArtStart) = 2
    /\ Len(data.encounters) >= 2
    /\ Count(issues, MsgArtStartMissing) = 1

\* Some IPT regimen is dated on or after the visit date of the encounter e;
\* against a visit date that does not parse, any IPT regimen counts.
IptOnOrAfter(e) ==
    \E k \in 1..Len(data.regimens) :
        LET r == data.regimens[k]
        IN  /\ IsIpt(r)
            /\ \/ ~Parses(e.key)
               \/ Parses(r.key) /\ DtGeq(strptime(r.key), strptime(e.key))

\* C7: for every encounter with a visit date and tb_status 2, 3 or 4, the
\* "IPT recorded for TBStatus" issue of its date is emitted if and only if
\* some IPT regimen is dated on or after the visit date, or, when the visit
\* date does not parse, if there is any IPT regimen at all.
C7_IptConflictIff ==
    pc \in {"done", "raised"} =>
        \A k \in 1..Len(data.encounters) :
            LET e == data.encounters[k]
            IN  (e.key # Unknown /\ e.val.tb \in {<<"2">>, <<"3">>, <<"4">>})
                    => (MsgIptConflict(e.key, e.val.tb) \in Range(issues)
                            <=> IptOnOrAfter(e))

\* C8: for every encounter with a visit date and tb_status 0, the "TBStatus
\* 0 but no IPT" issue of its date is emitted if and only if no IPT regimen
\* is dated on or after the visit date; when the visit date does not parse
\* it is always emitted.
C8_NoIptIff ==
    pc \in {"done", "raised"} =>
        \A k \in 1..Len(data.encounters) :
            LET e == data.encounters[k]
            IN  (e.key # Unknown /\ e.val.tb = <<"0">>)
                    => (MsgNoIpt(e.key) \in Range(issues)
                            <=> (~Parses(e.key) \/ ~IptOnOrAfter(e)))

\* Some issue says that the encounter dated date precedes the ART start.
PrecedesEmitted(date) ==
    \E k \in 1..Len(issues) :
        StartsWith(issues[k], <<Cross>> \o date \o <<": Encounter precedes ARTStartDate (">>)

\* C9: for every encounter whose visit date parses, the "Encounter precedes
\* ARTStartDate" issue is emitted, citing the ART start date, if and only if
\* art_start is set, the visit date is strictly earlier and the encounter
\* has a non-empty ARV code; a visit on the ART start date yields none.
C9_ChronologyIff ==
    Returned =>
        \A k \in 1..Len(data.encounters) :
            LET e == data.encounters[k]
            IN  Parses(e.key) =>
                    /\ PrecedesEmitted(e.key)
                          <=> /\ data.art_start # None
                              /\ DtLess(strptime(e.key), data.art_start)
                              /\ e.val.arv \notin {None, Empty}
                    /\ PrecedesEmitted(e.key)
                          => MsgPrecedes(e.key, data.art_start) \in Range(issues)

\* A returned list for a record with an encounter before the ART start date,
\* which has the issue, and one on the ART start date, which has none.
C9_Witness ==
    /\ Returned
    /\ data.art_start # None
    /\ \E j, k \in 1..Len(data.encounters) :
          /\ data.encounters[j].val.arv \notin {None, Empty}
          /\ data.encounters[k].val.arv \notin {None, Empty}
          /\ Parses(data.encounters[j].key)
          /\ DtLess(strptime(data.encounters[j].key), data.art_start)
          /\ PrecedesEmitted(data.encounters[j].key)
          /\ strptime(data.encounters[k].key) = data.art_start
          /\ ~PrecedesEmitted(data.encounters[k].key)

\* The regimen r has a duration that is an integer outside 1..180; an absent
\* or empty duration counts as 0.
DurationOutOfRange(r) ==
    \/ r.val.duration \in {None, Empty}
    \/ int(r.val.duration).ok /\ int(r.val.duration).val \notin 1..180

DurationOf(r) == IF r.val.duration \in {None, Empty} THEN 0 ELSE int(r.val.duration).val

\* How often the "expected between 1 and 180 days" issue of r is in the list.
DurationIssueCount(r) ==
    Count(issues, MsgDuration(r.key, OrEmpty(r.val.codetext), DurationOf(r)))

\* C10 as stated: for every record with at least one encounter, every
\* regimen with a duration outside 1..180 has its "expected between 1 and
\* 180 days" issue exactly once in the issue list.
C10_DurationOnceAnyEncounter ==
    (Returned /\ Len(data.encounters) >= 1) =>
        \A k \in 1..Len(data.regimens) :
            DurationOutOfRange(data.regimens[k])
                => DurationIssueCount(data.regimens[k]) = 1

\* C10 as amended: for every record with at least one encounter whose key is
\* not "Unknown", every regimen with a duration outside 1..180 has its
\* "expected between 1 and 180 days" issue exactly once in the returned
\* list, however many encounters the record has.
C10_DurationOnce ==
    (Returned /\ \E j \in 1..Len(data.encounters) : data.encounters[j].key # Unknown) =>
        \A k \in 1..Len(data.regimens) :
            DurationOutOfRange(data.regimens[k])
                => DurationIssueCount(data.regimens[k]) = 1

\* A returned list for a record with two dated encounters and a regimen of
\* 200 days: the regimen loop ran twice and the issue is there once.
C10_Witness ==
    /\ Returned
    /\ Cardinality({j \in 1..Len(data.encounters) : data.encounters[j].key # Unknown}) >= 2
    /\ \E k \in 1..Len(data.regimens) :
          /\ DurationOf(data.regimens[k]) = 200
          /\ DurationIssueCount(data.regimens[k]) = 1

\* The date of birth, the report date and the reported age of the record.
Dob == Get(data.patient, "dob")

ReportDate == Get(data.patient, "report_date")

ReportedAge == Get(data.patient, "age")

\* All three parse: the dates with the strict grammar, the age as an integer.
AgeInputsParse ==
    /\ Parses(Dob)
    /\ Parses(ReportDate)
    /\ ReportedAge # None /\ int(ReportedAge).ok

\* The report's (month, day) is before the birth's (month, day).
BeforeBirthday ==
    strptime(ReportDate)[2] * 100 + strptime(ReportDate)[3]
        < strptime(Dob)[2] * 100 + strptime(Dob)[3]

\* The year difference, minus one before the birthday of the report year.
ComputedAge ==
    strptime(ReportDate)[1] - strptime(Dob)[1] - (IF BeforeBirthday THEN 1 ELSE 0)

AgeGap ==
    LET diff == int(ReportedAge).val - ComputedAge
    IN  IF diff < 0 THEN 0 - diff ELSE diff

AgeMismatchCount ==
    Cardinality({k \in 1..Len(issues) : StartsWith(issues[k], <<Cross, "Reported age (">>)})

\* C11: when date of birth, report date and reported age all parse, the
\* age-mismatch issue is emitted, with the reported and the computed age, if
\* and only if they differ by more than 1, and no warning is; when one of
\* them does not parse, exactly one "Unable to validate age" warning is
\* emitted and no mismatch issue: at most one age message in the list.
C11_AgeTolerance ==
    Returned =>
        /\ AgeMismatchCount + Count(issues, MsgAgeUnknown) <= 1
        /\ IF AgeInputsParse
           THEN /\ Count(issues, MsgAgeUnknown) = 0
                /\ AgeMismatchCount = (IF AgeGap > 1 THEN 1 ELSE 0)
                /\ AgeGap > 1 => MsgAge(ReportedAge, ComputedAge) \in Range(issues)
           ELSE /\ Count(issues, MsgAgeUnknown) = 1
                /\ AgeMismatchCount = 0

\* A returned list for a report the day before the birthday and a reported
\* age one more than the computed age: no age message at all.
C11_Witness ==
    /\ Returned
    /\ AgeInputsParse
    /\ BeforeBirthday
    /\ strptime(ReportDate)[2] = strptime(Dob)[2]
    /\ AgeGap = 1
    /\ AgeMismatchCount = 0
    /\ Count(issues, MsgAgeUnknown) = 0

\* The height text h is a number greater than 200: float() accepts it and
\* the value is positive infinity or a positive decimal above 200.
NumberAbove200(h) ==
    /\ h # None
    /\ float(h).ok
    /\ float(h).kind # "nan"
    /\ ~float(h).neg
    /\ \/ float(h).kind = "inf"
       \/ float(h).whole >= 201
       \/ float(h).whole = 200 /\ \E j \in 1..Len(float(h).frac) : float(h).frac[j] # "0"

\* The height issues of the encounter dated date, and those of the ART start.
HeightIssueCount(date) ==
    Cardinality({k \in 1..Len(issues) :
        StartsWith(issues[k], <<Cross>> \o date \o <<": Child Height > 200 (">>)})

ArtHeightIssueCount ==
    Cardinality({k \in 1..Len(issues) : StartsWith(issues[k], <<Cross, "ART Start (">>)})

\* The date the ART-start height issue names.
ArtStartText ==
    IF data.art_start = None THEN <<"Unknown date">> ELSE IsoDate(data.art_start)

\* All messages about a height, issue or warning.
HeightMessageCount ==
    Cardinality({k \in 1..Len(issues) : Range(issues[k]) \cap HeightTexts # {}})

\* C12: every encounter has a height issue naming its date if and only if
\* its child_height parses as a number greater than 200, and the record has
\* the ART-start height issue, naming the ART start date or "Unknown date",
\* if and only if height_at_art_start does; a height that is absent, not a
\* number or exactly 200 has no message at all, issue or warning.
C12_HeightBound ==
    Returned =>
        /\ \A k \in 1..Len(data.encounters) :
              LET e == data.encounters[k]
              IN  HeightIssueCount(e.key) = (IF NumberAbove200(e.val.height) THEN 1 ELSE 0)
        /\ LET h == Get(data.patient, "height_at_art_start")
           IN  /\ ArtHeightIssueCount = (IF NumberAbove200(h) THEN 1 ELSE 0)
               /\ NumberAbove200(h)
                     => MsgArtHeight(ArtStartText, float(h)) \in Range(issues)
        /\ HeightMessageCount =
              ArtHeightIssueCount
                + Cardinality({k \in 1..Len(data.encounters) :
                      NumberAbove200(data.encounters[k].val.height)})

\* A returned list for a record with an encounter of height exactly 200,
\* which has no message, and a height at ART start above 200 with art_start
\* unset, whose issue names "Unknown date".
C12_Witness ==
    /\ Returned
    /\ data.art_start = None
    /\ \E k \in 1..Len(data.encounters) :
          /\ data.encounters[k].val.height = <<"2", "0", "0">>
          /\ HeightIssueCount(data.encounters[k].key) = 0
    /\ NumberAbove200(Get(data.patient, "height_at_art_start"))
    /\ ArtHeightIssueCount = 1
    /\ HeightMessageCount = 1

\* The request uploads a file named *.xml whose content is not well-formed.
MalformedUpload ==
    /\ request.method = "POST"
    /\ request.file.present
    /\ endswith(lower(request.file.filename), <<".", "x", "m", "l">>)
    /\ ~request.file.content.wellformed

\* extract_services was called directly on a file that is not well-formed.
MalformedCall == request.method = "none" /\ ~files[XmlPath].wellformed

\* C13: when the document cannot be parsed into a tree, extract_services
\* raises the parse error before any record exists and goes no further; in
\* the upload handler no record exists either, validation is not run, and
\* the handler ends with the not-well-formed error message while issues
\* and patient stay unset.
C13_MalformedInput ==
    /\ MalformedCall => (data = Unbound /\ pc \in {"extract_parse", "ParseError"})
    /\ MalformedUpload =>
          /\ data = Unbound
          /\ pc # "upload_validate"
          /\ {"issues", "patient"} \cap DOMAIN response = {}
          /\ pc \in {"upload_finally", "upload_remove", "upload_render", "rendered"}
                => /\ "error_message" \in DOMAIN response
                   /\ response.error_message = MsgNotWellFormed

\* The page rendered for an upload that is not well-formed: the error
\* message, and neither issues nor patient.
C13_Witness ==
    /\ pc = "rendered"
    /\ MalformedUpload
    /\ response.rendered
    /\ response.error_message = MsgNotWellFormed
    /\ "issues" \notin DOMAIN response

\* C14: every string of the issue list begins with one of the two severity
\* markers, the cross or the warning sign, at every point of the run and in
\* the returned list.
C14_MarkerFirst ==
    \A k \in 1..Len(issues) :
        /\ Len(issues[k]) >= 2
        /\ issues[k][1] \in {Cross, Warn}

\* A returned list with issues of at least six of the eight steps, blocking
\* issues and warnings among them.
C14_Witness ==
    /\ Returned
    /\ Cardinality({StepOf(issues[k]) : k \in 1..Len(issues)}) >= 6
    /\ \E k \in 1..Len(issues) : issues[k][1] = Cross
    /\ \E k \in 1..Len(issues) : issues[k][1] = Warn

\* The texts of the issues written on behalf of one encounter, after its key.
PerEncounterTexts ==
    {": ARVDrugRegimen/Code is missing.", ": Encounter precedes ARTStartDate (",
     ": ARTStartDate Missing.", ": VisitDate has invalid format.",
     ": TBStatus is missing.",
     ": TBStatus 0 but no IPT (INH) regimen on/after this date.",
     ": IPT recorded for TBStatus ", ": ARV code mismatch (Encounter=",
     ": Child Height > 200 ("}

\* The issues written on behalf of the encounter keyed key.
EncounterIssues(key) ==
    {k \in 1..Len(issues) :
        \E text \in PerEncounterTexts :
            \/ StartsWith(issues[k], <<Cross>> \o key \o <<text>>)
            \/ StartsWith(issues[k], <<Warn>> \o key \o <<text>>)}

\* C15: for a record with an encounter keyed "Unknown", the only issue
\* emitted on behalf of that encounter is "Encounter missing VisitDate.": no
\* ARV-mismatch issue, no height issue and no other per-encounter issue
\* names the key "Unknown".
C15_UnknownOnlyMissingDate ==
    (Returned /\ HasKey(data.encounters, Unknown)) =>
        /\ Count(issues, MsgNoVisitDate) = 1
        /\ EncounterIssues(Unknown) = {}

\* The per-encounter block has run for the k-th encounter.
Processed(k) ==
    CASE pc \in {"call", "identifiers", "art_start", "address"} -> FALSE
      [] pc \in {"encounters", "raised"} -> idx > k
      [] OTHER -> TRUE

\* The issues of the encounter keyed key with the given text.
IssuesWith(key, text) ==
    {k \in 1..Len(issues) :
        \/ StartsWith(issues[k], <<Cross>> \o key \o <<text>>)
        \/ StartsWith(issues[k], <<Warn>> \o key \o <<text>>)}

\* The encounters with a visit date that the strict grammar rejects.
Unparsable(e) == e.key # Unknown /\ ~Parses(e.key)

\* C16 as stated: an encounter whose visit date does not parse has the
\* invalid-format warning and neither a chronology issue ("precedes
\* ARTStartDate", "ARTStartDate Missing") nor a TB-status issue (missing,
\* no IPT, conflicting IPT) for its date.
C16_UnparsableSkipsChronologyAndTb ==
    \A k \in 1..Len(data.encounters) :
        LET e == data.encounters[k]
        IN  (Unparsable(e) /\ Processed(k)) =>
                /\ Count(issues, MsgBadVisitDate(e.key)) = 1
                /\ IssuesWith(e.key, ": Encounter precedes ARTStartDate (") = {}
                /\ IssuesWith(e.key, ": ARTStartDate Missing.") = {}
                /\ IssuesWith(e.key, ": TBStatus is missing.") = {}
                /\ IssuesWith(e.key,
                      ": TBStatus 0 but no IPT (INH) regimen on/after this date.") = {}
                /\ IssuesWith(e.key, ": IPT recorded for TBStatus ") = {}

\* C16 as amended: an encounter whose visit date is present and does not
\* parse has the invalid-format warning, once, and no chronology issue for
\* its date: neither "precedes ARTStartDate" nor "ARTStartDate Missing".
C16_UnparsableSkipsChronology ==
    \A k \in 1..Len(data.encounters) :
        LET e == data.encounters[k]
        IN  /\ Unparsable(e) =>
                  /\ IssuesWith(e.key, ": Encounter precedes ARTStartDate (") = {}
                  /\ IssuesWith(e.key, ": ARTStartDate Missing.") = {}
            /\ (Unparsable(e) /\ Processed(k)) =>
                  Count(issues, MsgBadVisitDate(e.key)) = 1
            /\ (e.key # Unknown /\ Parses(e.key)) =>
                  IssuesWith(e.key, ": VisitDate has invalid format.") = {}

\* A returned list for a record without art_start and with an encounter that
\* has an ARV code and an unparsable visit date: the warning is there and
\* the per-encounter "ARTStartDate Missing" is not.
C16_Witness ==
    /\ Returned
    /\ data.art_start = None
    /\ \E k \in 1..Len(data.encounters) :
          LET e == data.encounters[k]
          IN  /\ Unparsable(e)
              /\ Truthy(e.val.arv)
              /\ MsgBadVisitDate(e.key) \in Range(issues)
              /\ IssuesWith(e.key, ": ARTStartDate Missing.") = {}

\* The ARV-mismatch issues of the encounter keyed key.
MismatchCount(key) ==
    Cardinality(IssuesWith(key, ": ARV code mismatch (Encounter="))

\* The regimens keyed as the encounter e, of type ART, with a code that is
\* not empty and differs from the non-empty ARV code of e.
DisagreeingArt(e) ==
    {k \in 1..Len(data.regimens) :
        /\ data.regimens[k].key = e.key
        /\ data.regimens[k].val.type = ART
        /\ e.val.arv \notin {None, Empty}
        /\ data.regimens[k].val.code \notin {None, Empty}
        /\ data.regimens[k].val.code # e.val.arv}

\* C20: an ARV-mismatch issue citing both codes is emitted for an encounter
\* if and only if the regimens have an entry of the same key whose type is
\* ART, the encounter's ARV code and the regimen's code are both non-empty,
\* and they differ; no encounter has more than one mismatch issue.
C20_MismatchIff ==
    Returned =>
        \A k \in 1..Len(data.encounters) :
            LET e == data.encounters[k]
            IN  /\ MismatchCount(e.key) = (IF DisagreeingArt(e) # {} THEN 1 ELSE 0)
                /\ \A j \in DisagreeingArt(e) :
                      MsgMismatch(e.key, e.val.arv, data.regimens[j].val.code)
                          \in Range(issues)

\* A returned list for a dated encounter with code TDF and a same-date ART
\* regimen with code AZT: one mismatch issue.
C20_Witness ==
    /\ Returned
    /\ \E k \in 1..Len(data.encounters) :
          LET e == data.encounters[k]
          IN  /\ Parses(e.key)
              /\ e.val.arv = TDF
              /\ DisagreeingArt(e) # {}
              /\ MsgMismatch(e.key, TDF, AZT) \in Range(issues)
              /\ MismatchCount(e.key) = 1

\* extract_services has returned the record data.
Extracted == pc = "extracted"

\* The document extract_services was called on.
Document == files[XmlPath]

AddressKeys == {"addresscode", "lgacode", "statecode", "countrycode"}

\* C17: extraction of a well-formed document never fails, and when the
\* address section is absent the address fields stay unset and the flag
\* "Missing PatientAddress element" is in validation_flags; when the
\* HIVQuestions section or its ARTStartDate field is absent art_start stays
\* unset and the flag "Missing ARTStartDate" is in validation_flags.
C17_MissingSectionsFlagged ==
    /\ Document.wellformed => pc \notin {"ParseError", "FileNotFoundError"}
    /\ Extracted =>
         /\ "PatientAddress" \notin DOMAIN Root =>
               /\ AddressKeys \cap DOMAIN data.patient = {}
               /\ address_flags[5] \in Range(data.validation_flags)
         /\ ("HIVQuestions" \notin DOMAIN Root \/ Root.HIVQuestions.ARTStartDate = None) =>
               /\ data.art_start = None
               /\ FlagMissingArtStart \in Range(data.validation_flags)

\* The identifier entries of the document.
IdentifierEntries ==
    IF "PatientDemographics" \in DOMAIN Root
    THEN Range(Root.PatientDemographics.Identifier) ELSE {}

\* C18: after extraction every identifier entry whose type code is non-empty
\* and neither HN nor TB has its flag "Invalid identifier: <type>" and its
\* type as a key of other_ids, also when it has no number: every type an
\* "Invalid identifier" flag names is a key of other_ids.
C18_InvalidIdsRecorded ==
    Extracted =>
        /\ \A entry \in IdentifierEntries :
              (Truthy(entry.IDTypeCode) /\ entry.IDTypeCode \notin {HN, TB}) =>
                  /\ FlagInvalidId(entry.IDTypeCode) \in Range(data.validation_flags)
                  /\ HasKey(data.patient.other_ids, entry.IDTypeCode)
        /\ \A k \in 1..Len(data.validation_flags) :
              LET flag == data.validation_flags[k]
              IN  StartsWith(flag, <<"Invalid identifier", ": ">>) =>
                      HasKey(data.patient.other_ids, SubSeq(flag, 3, Len(flag)))

\* The last element of list keyed key.
LastWith(list, key) ==
    list[CHOOSE k \in 1..Len(list) :
            /\ VisitKey(list[k]) = key
            /\ \A j \in (k + 1)..Len(list) : VisitKey(list[j]) # key]

\* The ordered dict items has exactly one entry per key of the elements.
OnePerKey(items, list) ==
    /\ {items[k].key : k \in 1..Len(items)} = {VisitKey(list[k]) : k \in 1..Len(list)}
    /\ \A j, k \in 1..Len(items) : items[j].key = items[k].key => j = k

\* C19: each of the three keyed collections has exactly one entry per
\* distinct visit date of its elements ("Unknown" for an absent date), and
\* the entry holds the fields of the last element in document order with
\* that date, whatever an earlier element with the same date held.
C19_LastWriteWins ==
    Extracted =>
        /\ OnePerKey(data.regimens, Root.Regimen)
        /\ OnePerKey(data.encounters, Root.HIVEncounter)
        /\ OnePerKey(data.labs, Root.LaboratoryReport)
        /\ \A k \in 1..Len(data.regimens) :
              data.regimens[k].val
                  = RegimenEntry(LastWith(Root.Regimen, data.regimens[k].key))
        /\ \A k \in 1..Len(data.encounters) :
              data.encounters[k].val
                  = EncounterEntry(LastWith(Root.HIVEncounter, data.encounters[k].key))
        /\ \A k \in 1..Len(data.labs) :
              data.labs[k].val
                  = LabEntry(LastWith(Root.LaboratoryReport, data.labs[k].key))

\* A record extracted from a document with two encounters of the same date
\* that differ in every field: one entry, with the fields of the second.
C19_Witness ==
    /\ Extracted
    /\ Len(Root.HIVEncounter) = 2
    /\ Root.HIVEncounter[1].VisitDate = D1
    /\ Root.HIVEncounter[2].VisitDate = D1
    /\ Root.HIVEncounter[1].Code = TDF
    /\ Root.HIVEncounter[2].Code = None
    /\ Len(data.encounters) = 1
    /\ data.encounters[1].val = [arv |-> None, tb |-> None, height |-> None]

\* The issues of lines 25-27, in the order of the issue list.
InvalidIdIssueList ==
    SelectSeq(issues, LAMBDA msg : StartsWith(msg, <<Cross, "Invalid identifier">>))

\* The flags of the record that contain the text Invalid identifier, in the
\* order of validation_flags.
InvalidIdFlagList ==
    SelectSeq(data.validation_flags, LAMBDA flag : "Invalid identifier" \in Range(flag))

\* The identifier entries of the document whose type code is id_type.
EntriesOfType(id_type) ==
    IF "PatientDemographics" \notin DOMAIN Root THEN {}
    ELSE {k \in 1..Len(Root.PatientDemographics.Identifier) :
            Root.PatientDemographics.Identifier[k].IDTypeCode = id_type}

\* The type codes of the document that are neither empty nor HN nor TB.
UnknownTypes ==
    IF "PatientDemographics" \notin DOMAIN Root THEN {}
    ELSE {Root.PatientDemographics.Identifier[k].IDTypeCode :
            k \in 1..Len(Root.PatientDemographics.Identifier)}
         \ {None, Empty, HN, TB}

\* C21: invalid-identifier flags are not deduplicated: the returned list
\* holds one issue per flag that contains Invalid identifier, in the order
\* of the flags, and a document with n identifier entries of one unknown
\* type gets n equal issues when it is extracted and then validated.
C21_InvalidIdsNotDeduplicated ==
    Returned =>
        /\ Len(InvalidIdIssueList) = Len(InvalidIdFlagList)
        /\ \A k \in 1..Len(InvalidIdFlagList) :
              InvalidIdIssueList[k] = <<Cross>> \o InvalidIdFlagList[k]
        /\ \A id_type \in UnknownTypes :
              Count(issues, <<Cross, "Invalid identifier", ": ">> \o id_type)
                  = Cardinality(EntriesOfType(id_type))

\* A returned list for a document with two entries of one unknown type:
\* the same issue twice.
C21_Witness ==
    /\ Returned
    /\ \E id_type \in UnknownTypes :
          /\ Cardinality(EntriesOfType(id_type)) = 2
          /\ Count(issues, <<Cross, "Invalid identifier", ": ">> \o id_type) = 2

\* validation_flags of the record, none before the record exists or has
\* the entry.
FlagsOf(d) == IF "validation_flags" \in DOMAIN d THEN d.validation_flags ELSE <<>>

\* The list old is the beginning of the list new.
IsPrefix(old, new) ==
    /\ Len(old) <= Len(new)
    /\ \A k \in 1..Len(old) : new[k] = old[k]

\* C22: validation flags are additive: no step of extract_services and no
\* step of the validate_ndr that follows removes or alters a flag that
\* validation_flags holds; a step leaves the list as it is or appends.
C22_FlagsAdditive == [][IsPrefix(FlagsOf(data), FlagsOf(data'))]_vars

\* validate_ndr has returned for a record with a flag from each of the
\* identifier, address and ART-start blocks, in that order.
C22_Witness ==
    /\ Returned
    /\ files # NoFiles
    /\ \E i, j, k \in 1..Len(data.validation_flags) :
          /\ i < j /\ j < k
          /\ "Invalid identifier" \in Range(data.validation_flags[i])
          /\ data.validation_flags[j] \in Range(address_flags)
          /\ data.validation_flags[k] = FlagMissingArtStart

\* The request passes the tests of lines 339-344 and its file is saved.
Accepted(req) ==
    /\ req.method = "POST"
    /\ req.file.present
    /\ req.file.filename # Empty
    /\ endswith(lower(req.file.filename), <<".", "x", "m", "l">>)

\* upload_file has ended for a thread at step: with the page, or with the
\* FileNotFoundError of os.remove.
Exited(step) == step \in {"rendered", "upload_raised"}

\* The thread at step has saved its file and not yet passed os.remove.
HoldsFile(step) ==
    step \in {"upload_extract", "upload_validate", "upload_finally", "upload_remove"}

\* The other thread is between its save and its removal of the same path.
PeerHolds(path) ==
    /\ peer # NoPeer
    /\ HoldsFile(peer.pc)
    /\ TempPath(peer.request.file.filename) = path

\* C23: temporary-file cleanup: when upload_file has ended for a POST that
\* passed the file-present and extension tests, the file it saved no longer
\* exists, whether validation succeeded, the parse failed or another
\* exception was caught: its path is free, or holds the file another
\* request saved there and has not yet removed.  When every request has
\* ended, no file is left.
C23_TempFileRemoved ==
    /\ (Exited(pc) /\ Accepted(request))
          => (Path \notin DOMAIN files \/ PeerHolds(Path))
    /\ (Exited(pc) /\ (peer = NoPeer \/ Exited(peer.pc))) => files = NoFiles

\* Both requests have ended, one after the exception of validate_ndr was
\* caught and one after a parse error, and the directory is empty.
C23_Witness ==
    /\ pc = "rendered" /\ Accepted(request)
    /\ peer # NoPeer /\ peer.pc = "rendered" /\ Accepted(peer.request)
    /\ "error_message" \in DOMAIN response
    /\ StartsWith(response.error_message, <<Cross, "Unexpected error: ", "time data '">>)
    /\ "error_message" \in DOMAIN peer.response
    /\ peer.response.error_message = MsgNotWellFormed
    /\ peer.request.file.content = NotWellFormed
    /\ files = NoFiles

\* The thread with these locals has read its file: extract_services has
\* returned or raised.
HasRead(step) ==
    step \in {"upload_validate", "upload_finally", "upload_remove", "upload_render",
              "rendered", "upload_raised"}

\* What the thread got is what extract_services gives for the content the
\* request uploaded.
ReadOwnContent(req, d, resp) ==
    IF req.file.content.wellformed
    THEN d = AppExtract(req.file.content.root)
    ELSE /\ d = Unbound
         /\ "error_message" \in DOMAIN resp
         /\ resp.error_message = MsgNotWellFormed

\* From the save to the read, the path holds the content the request saved.
FileIntact(step, req) ==
    step = "upload_extract"
        => /\ TempPath(req.file.filename) \in DOMAIN files
           /\ files[TempPath(req.file.filename)] = req.file.content

\* C24: concurrent uploads do not interfere: each of two requests handled
\* in parallel extracts exactly the content it saved, and from its save to
\* its read its temporary file is neither removed nor overwritten by the
\* other request, also when both files have the same name.
C24_NoInterference ==
    /\ Accepted(request) =>
          /\ FileIntact(pc, request)
          /\ HasRead(pc) => ReadOwnContent(request, data, response)
    /\ (peer # NoPeer /\ Accepted(peer.request)) =>
          /\ FileIntact(peer.pc, peer.request)
          /\ HasRead(peer.pc) => ReadOwnContent(peer.request, peer.data, peer.response)

\* The encounters of the record that have a visit date.
DatedEncounters == {j \in 1..Len(data.encounters) : data.encounters[j].key # Unknown}

\* int(reg["duration"] or 0) of the regimen r.
ParsedDuration(r) ==
    IF Truthy(r.val.duration) THEN int(r.val.duration) ELSE [ok |-> TRUE, val |-> 0]

\* The regimen r is longer than 30 days and has no MMD.
LongWithoutMmd(r) ==
    /\ ParsedDuration(r).ok
    /\ ParsedDuration(r).val > 30
    /\ r.val.mmd \in {None, Empty}

\* The issues of the regimen checks, by their fixed text.
RegimenTexts ==
    {": PrescribedRegimenDuration ", ": Regimen duration >30 days but MMD not specified.",
     ": Regimen duration not numeric."}

\* C25: the regimen checks run only inside the encounter loop: a regimen
\* longer than 30 days without MMD has its MMD issue once per encounter
\* whose key is not "Unknown", a regimen whose duration is not numeric has
\* its warning as often, any other regimen has neither, and a record with
\* no encounter, or with none but "Unknown", has no regimen issue at all.
C25_RegimenChecksPerEncounter ==
    Returned =>
        /\ \A k \in 1..Len(data.regimens) :
              LET r == data.regimens[k]
              IN  /\ Count(issues, MsgNoMmd(r.key))
                        = IF LongWithoutMmd(r) THEN Cardinality(DatedEncounters) ELSE 0
                  /\ Count(issues, MsgNotNumeric(r.key))
                        = IF ParsedDuration(r).ok THEN 0 ELSE Cardinality(DatedEncounters)
        /\ DatedEncounters = {}
              => \A k \in 1..Len(issues) : Range(issues[k]) \cap RegimenTexts = {}

\* A returned list for a record with two dated encounters and a regimen of
\* more than 30 days without MMD: the issue is there twice.
C25_Witness ==
    /\ Returned
    /\ Cardinality(DatedEncounters) = 2
    /\ \E k \in 1..Len(data.regimens) :
          /\ LongWithoutMmd(data.regimens[k])
          /\ Count(issues, MsgNoMmd(data.regimens[k].key)) = 2

\* The issue msg is a per-encounter "ARTStartDate Missing." issue.
IsEncArtMissing(msg) == ": ARTStartDate Missing." \in Range(msg)

\* The date a per-encounter issue names: the text between the marker and
\* the fixed text.
DateOfIssue(msg) == SubSeq(msg, 2, Len(msg) - 1)

\* C26: whenever the issue list holds a per-encounter "<date>: ARTStartDate
\* Missing." issue, the global issue "ARTStartDate is missing in
\* HIVQuestions section." stands at an earlier position, and no "Encounter
\* precedes ARTStartDate" issue names the same date.
C26_EncArtMissingAfterGlobal ==
    \A k \in 1..Len(issues) :
        IsEncArtMissing(issues[k])
            => /\ \E j \in 1..(k - 1) : issues[j] = MsgArtStartMissing
               /\ ~PrecedesEmitted(DateOfIssue(issues[k]))

\* A returned list with the per-encounter issue of two encounters, after
\* the global issue.
C26_Witness ==
    /\ Returned
    /\ Cardinality({k \in 1..Len(issues) : IsEncArtMissing(issues[k])}) = 2
    /\ \A k \in 1..Len(data.encounters) :
          Parses(data.encounters[k].key)
              => MsgEncArtMissing(data.encounters[k].key) \in Range(issues)
    /\ MsgArtStartMissing \in Range(issues)

\* The TB-related issues, by their fixed text.
TbTexts ==
    {": TBStatus is missing.",
     ": TBStatus 0 but no IPT (INH) regimen on/after this date.",
     ": IPT recorded for TBStatus "}

\* The date a TB-related issue names: the text between the marker and the
\* fixed text.
TbIssueDate(msg) ==
    SubSeq(msg, 2, (CHOOSE k \in 1..Len(msg) : msg[k] \in TbTexts) - 1)

\* The TB-related issues of the list that name date.
TbIssuesOf(date) ==
    {k \in 1..Len(issues) :
        Range(issues[k]) \cap TbTexts # {} /\ TbIssueDate(issues[k]) = date}

\* C27: every encounter has at most one TB-related issue (TBStatus missing,
\* TBStatus 0 without IPT, IPT recorded for TBStatus 2, 3 or 4), and none
\* when its tb_status is 1 or another value outside 0, 2, 3, 4, whatever
\* the regimens contain.
C27_AtMostOneTbIssue ==
    \A j \in 1..Len(data.encounters) :
        LET e == data.encounters[j]
        IN  /\ Cardinality(TbIssuesOf(e.key)) <= 1
            /\ e.val.tb \notin {None, <<"0">>, <<"2">>, <<"3">>, <<"4">>}
                  => TbIssuesOf(e.key) = {}

\* A returned list for a record whose encounter has tb_status 1 and whose
\* regimen is IPT: no TB-related issue.
C27_Witness ==
    /\ Returned
    /\ \E k \in 1..Len(data.regimens) : IsIpt(data.regimens[k])
    /\ Len(data.encounters) = 1
    /\ data.encounters[1].key # Unknown
    /\ data.encounters[1].val.tb = <<"1">>
    /\ TbIssuesOf(data.encounters[1].key) = {}

====
